---------------------------- MODULE Spec2Model ----------------------------
(***************************************************************************)
(* Model of the Definition-of-Ready checker (src/src/dor_checker.py) and   *)
(* of the two batch tools that reuse it: the staleness analysis            *)
(* (src/src/backlog_cull.py) and the refinement preparation                *)
(* (src/src/refinement_prep.py).                                           *)
(*                                                                         *)
(* Python values are tagged records: [t |-> "none"], [t |-> "str", v],     *)
(* [t |-> "int", v], [t |-> "list", v] (v a sequence of values) and        *)
(* [t |-> "dict", v] (v a function from keys to values).  Text is a TLA+   *)
(* string, taken apart character by character with SubSeq.  A Python       *)
(* exception is the field raised = TRUE of an operator's result.           *)
(***************************************************************************)
EXTENDS Integers, Sequences, FiniteSets, TLC

VARIABLES
    checklist,      \* DoRChecker.checklist: the configured rules, in order
    custom_fields,  \* DoRChecker.custom_fields: alias -> field id
    pc,             \* "idle", or the operation whose result is held
    arg,            \* the argument of that operation
    result,         \* what the operation returned, or that it raised
    cull_config,    \* BacklogCull: the three configured thresholds
    thresholds,     \* run_analysis: the thresholds in use by the run
    issues,         \* run_analysis: the issues fetched
    position,       \* run_analysis: index of the next issue of the loop
    kept,           \* run_analysis: candidates / scored_issues so far
    warnings,       \* run_analysis: keys of the issues warned about
    history         \* the calls this checker has answered, oldest first

\* What a run of a batch tool works on
loopVars == <<thresholds, issues, position, kept, warnings>>

vars == <<checklist, custom_fields, pc, arg, result, cull_config,
          thresholds, issues, position, kept, warnings, history>>

---------------------------------------------------------------------------
(* Python values *)

PNone == [t |-> "none"]

PStr(s) == [t |-> "str", v |-> s]

PInt(n) == [t |-> "int", v |-> n]

PList(xs) == [t |-> "list", v |-> xs]

PDict(d) == [t |-> "dict", v |-> d]

\* dict.get(key, default)
Get(d, key, default) == IF key \in DOMAIN d THEN d[key] ELSE default

\* Python truthiness: None, "", 0, [] and {} are falsy
Truthy(x) ==
    CASE x.t = "none" -> FALSE
      [] x.t = "str"  -> x.v # ""
      [] x.t = "int"  -> x.v # 0
      [] x.t = "list" -> Len(x.v) > 0
      [] x.t = "dict" -> DOMAIN x.v # {}

IsStrValue(x, s) == x.t = "str" /\ x.v = s

---------------------------------------------------------------------------
(* Text *)

Whitespace == {" ", "\t", "\n", "\r"}

CharAt(s, i) == SubSeq(s, i, i)

UpperCase == "ABCDEFGHIJKLMNOPQRSTUVWXYZ"

LowerCase == "abcdefghijklmnopqrstuvwxyz"

LowerMap == [c \in {CharAt(UpperCase, k) : k \in 1..26} |->
                CharAt(LowerCase, CHOOSE k \in 1..26 : CharAt(UpperCase, k) = c)]

LowerChar(c) == IF c \in DOMAIN LowerMap THEN LowerMap[c] ELSE c

RECURSIVE Concat(_, _, _)
\* pieces[lo] \o ... \o pieces[hi], by halving (the depth stays logarithmic)
Concat(pieces, lo, hi) ==
    IF lo > hi THEN ""
    ELSE IF lo = hi THEN pieces[lo]
    ELSE LET mid == (lo + hi) \div 2 IN
         Concat(pieces, lo, mid) \o Concat(pieces, mid + 1, hi)

\* str.lower()
Lower(s) == Concat([i \in 1..Len(s) |-> LowerChar(CharAt(s, i))], 1, Len(s))

\* ' '.join(s.split()): the words of s, each but the first preceded by one space
JoinWords(s) ==
    LET ws(i) == CharAt(s, i) \in Whitespace
        piece(i) ==
            IF ws(i) THEN ""
            ELSE IF i > 1 /\ ws(i - 1) /\ (\E j \in 1..(i - 1) : ~ws(j))
                 THEN " " \o CharAt(s, i)
                 ELSE CharAt(s, i)
    IN Concat([i \in 1..Len(s) |-> piece(i)], 1, Len(s))

\* ' '.join(text.lower().split())
Normalize(s) == JoinWords(Lower(s))

\* str.strip()
Strip(s) ==
    LET solid == {i \in 1..Len(s) : CharAt(s, i) \notin Whitespace} IN
    IF solid = {} THEN ""
    ELSE SubSeq(s, CHOOSE i \in solid : \A j \in solid : i <= j,
                   CHOOSE i \in solid : \A j \in solid : j <= i)

\* sub in s
Contains(sub, s) ==
    \E i \in 1..(Len(s) - Len(sub) + 1) : SubSeq(s, i, i + Len(sub) - 1) = sub

\* s.startswith(prefix)
StartsWith(s, prefix) ==
    Len(s) >= Len(prefix) /\ SubSeq(s, 1, Len(prefix)) = prefix

Digits == "0123456789"

RECURSIVE NatToStr(_)
NatToStr(n) ==
    IF n < 10 THEN CharAt(Digits, n + 1)
    ELSE NatToStr(n \div 10) \o CharAt(Digits, (n % 10) + 1)

\* str(n) for an int
IntToStr(n) == IF n < 0 THEN "-" \o NatToStr(0 - n) ELSE NatToStr(n)

RECURSIVE Repr(_)
RECURSIVE ReprItems(_, _)
\* repr(x) of a value without dicts and without quotes in its strings
Repr(x) ==
    CASE x.t = "none" -> "None"
      [] x.t = "str"  -> "'" \o x.v \o "'"
      [] x.t = "int"  -> IntToStr(x.v)
      [] x.t = "list" -> "[" \o ReprItems(x.v, 1) \o "]"

ReprItems(xs, i) ==
    IF i > Len(xs) THEN ""
    ELSE Repr(xs[i]) \o (IF i < Len(xs) THEN ", " ELSE "") \o ReprItems(xs, i + 1)

\* str(x)
PyStr(x) == IF x.t = "str" THEN x.v ELSE Repr(x)

RECURSIVE JoinFrom(_, _, _)
JoinFrom(sep, parts, i) ==
    IF i > Len(parts) THEN ""
    ELSE parts[i] \o (IF i < Len(parts) THEN sep ELSE "") \o JoinFrom(sep, parts, i + 1)

\* sep.join(parts) for a list of strings
Join(sep, parts) == JoinFrom(sep, parts, 1)

---------------------------------------------------------------------------
(* DoRChecker: rich-text extraction and the template heuristics *)

RECURSIVE extract_recursive(_, _)
RECURSIVE ExtractChildren(_, _, _)
\* The nested function of _extract_adf_text.  acc is [raised, parts]: parts are
\* the values appended to text_parts so far, raised tells that iterating a
\* content that is not iterable has raised TypeError.
extract_recursive(node, acc) ==
    IF acc.raised THEN acc
    ELSE IF node.t = "dict" THEN
        LET ty == Get(node.v, "type", PNone)
            a1 == IF IsStrValue(ty, "text")
                  THEN [acc EXCEPT !.parts = Append(@, Get(node.v, "text", PStr("")))]
                  ELSE acc
        IN IF "content" \in DOMAIN node.v
           THEN LET c == node.v["content"] IN
                CASE c.t = "list" -> ExtractChildren(c.v, 1, a1)
                  \* a str yields its characters, a dict its keys: strings, skipped
                  [] c.t \in {"str", "dict"} -> a1
                  \* None and numbers are not iterable
                  [] OTHER -> [a1 EXCEPT !.raised = TRUE]
           ELSE a1
    ELSE IF node.t = "list" THEN ExtractChildren(node.v, 1, acc)
    ELSE acc

ExtractChildren(children, i, acc) ==
    IF i > Len(children) \/ acc.raised THEN acc
    ELSE ExtractChildren(children, i + 1, extract_recursive(children[i], acc))

\* An extraction that joins the parts with nothing between them
_extract_adf_text_joined_without_spaces(adf) ==
    IF adf.t # "dict" THEN [raised |-> FALSE, text |-> PyStr(adf)]
    ELSE LET r == extract_recursive(adf, [raised |-> FALSE, parts |-> << >>]) IN
         IF r.raised \/ (\E i \in 1..Len(r.parts) : r.parts[i].t # "str")
         THEN [raised |-> TRUE, text |-> ""]
         ELSE [raised |-> FALSE,
               text |-> Join("", [i \in 1..Len(r.parts) |-> r.parts[i].v])]

\* _extract_adf_text(adf): [raised, text].  ' '.join raises TypeError when a
\* collected part is not a string.
_extract_adf_text(adf) ==
    IF adf.t # "dict" THEN [raised |-> FALSE, text |-> PyStr(adf)]
    ELSE LET r == extract_recursive(adf, [raised |-> FALSE, parts |-> << >>]) IN
         IF r.raised \/ (\E i \in 1..Len(r.parts) : r.parts[i].t # "str")
         THEN [raised |-> TRUE, text |-> ""]
         ELSE [raised |-> FALSE,
               text |-> Join(" ", [i \in 1..Len(r.parts) |-> r.parts[i].v])]

MinMeaningfulLen == 20

template_phrases ==
    << "as a i would like so that",
       "steps to reproduce 1. login 2. navigate to page 3. click stuff",
       "please describe what the expected behavior is",
       "what actually happens" >>

\* A test that looks for the phrases in the text as it is written
_has_meaningful_content_case_sensitive(text) ==
    IF text = "" \/ Len(Strip(text)) < MinMeaningfulLen THEN FALSE
    ELSE LET normalized == JoinWords(text) IN
         ~(\E k \in 1..Len(template_phrases) : Contains(template_phrases[k], normalized))

\* _has_meaningful_content(text)
_has_meaningful_content(text) ==
    IF text = "" \/ Len(Strip(text)) < MinMeaningfulLen THEN FALSE
    ELSE LET normalized == Normalize(text) IN
         ~(\E k \in 1..Len(template_phrases) : Contains(template_phrases[k], normalized))

ShortTemplateLen == 30

template_patterns ==
    << "as a i want so that",
       "as a i would like so that",
       "as a [user type] i want [feature] so that [benefit]",
       "as a [user type] i would like [feature] so that [benefit]" >>

\* A test that measures the text before its whitespace is normalised
_is_story_syntax_template_measuring_raw_text(text) ==
    IF text = "" THEN TRUE
    ELSE LET normalized == Normalize(text) IN
         \/ \E k \in 1..Len(template_patterns) : Contains(template_patterns[k], normalized)
         \/ /\ Len(text) < ShortTemplateLen
            /\ Contains("as a", normalized)
            /\ (Contains("i want", normalized) \/ Contains("i would like", normalized))

\* _is_story_syntax_template(text)
_is_story_syntax_template(text) ==
    IF text = "" THEN TRUE
    ELSE LET normalized == Normalize(text) IN
         \/ \E k \in 1..Len(template_patterns) : Contains(template_patterns[k], normalized)
         \/ /\ Len(normalized) < ShortTemplateLen
            /\ Contains("as a", normalized)
            /\ (Contains("i want", normalized) \/ Contains("i would like", normalized))

keyword_map ==
    [environments  |-> <<"staging", "pre-prod", "pre-production", "production",
                         "environment", "deploy">>,
     security      |-> <<"security", "threat", "risk", "authentication",
                         "authorization", "vulnerability">>,
     documentation |-> <<"documentation", "docs", "wiki", "readme", "confluence">>,
     demo          |-> <<"demo", "demonstrate", "show", "presentation">>,
     cost          |-> <<"cost", "price", "budget", "expense", "billing", "$">>,
     telemetry     |-> <<"telemetry", "metrics", "monitoring", "alert",
                         "observability", "logging", "datadog", "grafana">>]

\* _get_keywords_for_field(field_name); field_name is a value (a str or None)
_get_keywords_for_field(field_name) ==
    IF field_name.t = "str" /\ field_name.v \in DOMAIN keyword_map
    THEN [k \in 1..Len(keyword_map[field_name.v]) |-> PStr(keyword_map[field_name.v][k])]
    ELSE <<field_name>>

---------------------------------------------------------------------------
(* DoRChecker._check_field *)

\* A (passed, details) pair returned, or an exception raised
Outcome(passed, details) == [raised |-> FALSE, passed |-> passed, details |-> details]

Raised == [raised |-> TRUE, passed |-> FALSE, details |-> ""]

MinSummaryLen == 3

\* A summary check that measures the title with its surrounding whitespace
check_summary_untrimmed(fields) ==
    LET value == Get(fields, "summary", PStr("")) IN
    IF ~Truthy(value) THEN Outcome(FALSE, "Title is missing or too short")
    ELSE IF value.t # "str" THEN Raised
    ELSE IF Len(value.v) > MinSummaryLen
         THEN Outcome(TRUE, "Title: '" \o value.v \o "'")
         ELSE Outcome(FALSE, "Title is missing or too short")

\* field_name == 'summary'
check_summary(fields) ==
    LET value == Get(fields, "summary", PStr("")) IN
    IF ~Truthy(value) THEN Outcome(FALSE, "Title is missing or too short")
    ELSE IF value.t # "str" THEN Raised               \* value.strip()
    ELSE IF Len(Strip(value.v)) > MinSummaryLen
         THEN Outcome(TRUE, "Title: '" \o value.v \o "'")
         ELSE Outcome(FALSE, "Title is missing or too short")

\* A parent check in which an optional rule fails like any other
check_parent_without_vacuous_pass(item, fields) ==
    LET parent == Get(fields, "parent", PNone) IN
    IF Truthy(parent)
    THEN IF parent.t # "dict" THEN Raised
         ELSE Outcome(TRUE, "Linked to " \o PyStr(Get(parent.v, "key", PNone)))
    ELSE Outcome(FALSE, "No parent epic linked")

\* field_name == 'parent'
check_parent(item, fields) ==
    LET parent == Get(fields, "parent", PNone) IN
    IF Truthy(parent)
    THEN IF parent.t # "dict" THEN Raised             \* parent.get('key')
         ELSE Outcome(TRUE, "Linked to " \o PyStr(Get(parent.v, "key", PNone)))
    ELSE IF Get(item, "optional", FALSE)
         THEN Outcome(TRUE, "Optional - No parent epic")
         ELSE Outcome(FALSE, "No parent epic linked")

\* A resolution that looks in the alias table before the rule's own identifier
resolve_custom_field_id_alias_first(item, field_name, fieldTable) ==
    IF field_name.t = "str" /\ field_name.v \in DOMAIN fieldTable
    THEN PStr(fieldTable[field_name.v])
    ELSE IF "field_name" \in DOMAIN item THEN PStr(item.field_name)
    ELSE IF Truthy(field_name) /\ StartsWith(field_name.v, "customfield_")
         THEN field_name
    ELSE PNone

\* The custom field id of a rule: a str value, or None
resolve_custom_field_id(item, field_name, fieldTable) ==
    IF "field_name" \in DOMAIN item THEN PStr(item.field_name)
    ELSE IF field_name.t = "str" /\ field_name.v \in DOMAIN fieldTable
         THEN PStr(fieldTable[field_name.v])
    ELSE IF Truthy(field_name) /\ StartsWith(field_name.v, "customfield_")
         THEN field_name
    ELSE PNone

\* The text of a field value: extracted from a dict, str(value) otherwise
content_text_of(value) ==
    IF value.t = "dict" THEN _extract_adf_text(value)
    ELSE [raised |-> FALSE, text |-> PyStr(value)]

\* A waiver that does not look for the unfilled template
check_waiver_without_template_test(item, value, issue_type) ==
    LET through == [decided |-> FALSE, out |-> Raised]
        done(o) == [decided |-> TRUE, out |-> o]
    IN
    IF Get(item, "optional_for_non_stories", FALSE) /\ issue_type # "" /\ issue_type # "story"
    THEN IF ~Truthy(value)
         THEN done(Outcome(TRUE, "N/A (not required for this issue type)"))
         ELSE LET ct == content_text_of(value) IN
              IF ct.raised THEN done(Raised)
              ELSE IF _has_meaningful_content(ct.text)
                   THEN done(Outcome(TRUE, "Optional but provided ("
                                            \o IntToStr(Len(ct.text)) \o " chars)"))
              ELSE through
    ELSE through

\* A waiver that is also granted to stories
check_waiver_granted_to_stories(item, value, issue_type) ==
    LET through == [decided |-> FALSE, out |-> Raised]
        done(o) == [decided |-> TRUE, out |-> o]
    IN
    IF Get(item, "optional_for_non_stories", FALSE) /\ issue_type # ""
    THEN IF ~Truthy(value)
         THEN done(Outcome(TRUE, "N/A (not required for this issue type)"))
         ELSE LET ct == content_text_of(value) IN
              IF ct.raised THEN done(Raised)
              ELSE IF _is_story_syntax_template(ct.text)
                   THEN done(Outcome(TRUE, "N/A (template text, not required for this issue type)"))
              ELSE IF _has_meaningful_content(ct.text)
                   THEN done(Outcome(TRUE, "Optional but provided ("
                                            \o IntToStr(Len(ct.text)) \o " chars)"))
              ELSE through
    ELSE through

\* The optional_for_non_stories block: [decided, out]; not decided when the
\* block is not entered or falls through to the normal checks.
check_waiver(item, value, issue_type) ==
    LET through == [decided |-> FALSE, out |-> Raised]
        done(o) == [decided |-> TRUE, out |-> o]
    IN
    IF Get(item, "optional_for_non_stories", FALSE) /\ issue_type # "" /\ issue_type # "story"
    THEN IF ~Truthy(value)
         THEN done(Outcome(TRUE, "N/A (not required for this issue type)"))
         ELSE LET ct == content_text_of(value) IN
              IF ct.raised THEN done(Raised)
              ELSE IF _is_story_syntax_template(ct.text)
                   THEN done(Outcome(TRUE, "N/A (template text, not required for this issue type)"))
              ELSE IF _has_meaningful_content(ct.text)
                   THEN done(Outcome(TRUE, "Optional but provided ("
                                            \o IntToStr(Len(ct.text)) \o " chars)"))
              ELSE through
    ELSE through

\* "Check if field has content", down to the "is not populated" return
check_populated(item, value) ==
    LET not_populated ==
            IF "name" \in DOMAIN item
            THEN Outcome(FALSE, "Field '" \o item.name \o "' is not populated")
            ELSE Raised                                \* item['name']
    IN
    IF ~Truthy(value) THEN not_populated
    ELSE CASE value.t = "dict" ->
                IF "content" \in DOMAIN value.v
                THEN LET ct == _extract_adf_text(value) IN
                     IF ct.raised THEN Raised
                     ELSE IF _has_meaningful_content(ct.text)
                          THEN Outcome(TRUE, "Field is populated ("
                                             \o IntToStr(Len(ct.text)) \o " chars)")
                          ELSE Outcome(FALSE, "Field contains only template/default text")
                ELSE IF "value" \in DOMAIN value.v
                     THEN Outcome(TRUE, "Set to: " \o PyStr(value.v["value"]))
                     ELSE not_populated
           [] value.t \in {"str", "int"} ->
                IF Strip(PyStr(value)) # ""
                THEN Outcome(TRUE, "Value: " \o PyStr(value))
                ELSE not_populated
           [] value.t = "list" ->
                Outcome(TRUE, "Contains " \o IntToStr(Len(value.v)) \o " item(s)")
           [] OTHER -> not_populated

MinDescriptionLen == 50

ShownKeywords == 3

\* A description check that accepts a text of MinDescriptionLen characters
check_description_accepting_the_minimum(fields, field_name) ==
    LET description == Get(fields, "description", PStr(""))
        dt == IF description.t = "str"
              THEN [raised |-> FALSE, text |-> Lower(description.v)]
              ELSE LET e == _extract_adf_text(description) IN
                   [raised |-> e.raised, text |-> Lower(e.text)]
        keywords == _get_keywords_for_field(field_name)
    IN
    IF dt.raised THEN Raised
    \* `kw in desc_text` with kw None raises TypeError
    ELSE IF \E k \in 1..Len(keywords) : keywords[k].t # "str" THEN Raised
    ELSE LET found == SelectSeq(keywords, LAMBDA kw : Contains(kw.v, dt.text))
             shown == SubSeq(keywords, 1, IF Len(keywords) < ShownKeywords
                                          THEN Len(keywords) ELSE ShownKeywords)
         IN IF Len(found) > 0 /\ Len(dt.text) >= MinDescriptionLen
            THEN Outcome(TRUE, "Mentioned in description: "
                               \o Join(", ", [k \in 1..Len(found) |-> found[k].v]))
            ELSE Outcome(FALSE, "Not mentioned in description (expected: "
                                \o Join(", ", [k \in 1..Len(shown) |-> shown[k].v]) \o ")")

\* The check_in_description block
check_description(fields, field_name) ==
    LET description == Get(fields, "description", PStr(""))
        dt == IF description.t = "str"
              THEN [raised |-> FALSE, text |-> Lower(description.v)]
              ELSE LET e == _extract_adf_text(description) IN
                   [raised |-> e.raised, text |-> Lower(e.text)]
        keywords == _get_keywords_for_field(field_name)
    IN
    IF dt.raised THEN Raised
    \* `kw in desc_text` with kw None raises TypeError
    ELSE IF \E k \in 1..Len(keywords) : keywords[k].t # "str" THEN Raised
    ELSE LET found == SelectSeq(keywords, LAMBDA kw : Contains(kw.v, dt.text))
             shown == SubSeq(keywords, 1, IF Len(keywords) < ShownKeywords
                                          THEN Len(keywords) ELSE ShownKeywords)
         IN IF Len(found) > 0 /\ Len(dt.text) > MinDescriptionLen
            THEN Outcome(TRUE, "Mentioned in description: "
                               \o Join(", ", [k \in 1..Len(found) |-> found[k].v]))
            ELSE Outcome(FALSE, "Not mentioned in description (expected: "
                                \o Join(", ", [k \in 1..Len(shown) |-> shown[k].v]) \o ")")

\* _check_field(item, fields, issue_type) on a checker with alias table fieldTable
_check_field(item, fields, issue_type, fieldTable) ==
    LET field_name == IF "field" \in DOMAIN item THEN PStr(item.field) ELSE PNone IN
    IF IsStrValue(field_name, "summary") THEN check_summary(fields)
    ELSE IF IsStrValue(field_name, "parent") THEN check_parent(item, fields)
    ELSE LET custom_field_id == resolve_custom_field_id(item, field_name, fieldTable) IN
         IF Truthy(custom_field_id)
         THEN LET value == Get(fields, custom_field_id.v, PNone)
                  w == check_waiver(item, value, issue_type)
              IN IF w.decided THEN w.out ELSE check_populated(item, value)
         ELSE IF Get(item, "check_in_description", FALSE)
              THEN check_description(fields, field_name)
              ELSE Outcome(FALSE, "Could not evaluate field")

---------------------------------------------------------------------------
(* DoRChecker.check_issue *)

\* round(num / den, 0) for den > 0, as Python rounds: to nearest, ties to even.
\* (Computed on the exact quotient; the code rounds the nearest double.)
RoundHalfEven(num, den) ==
    LET q == num \div den
        r == num % den
    IN IF 2 * r < den THEN q
       ELSE IF 2 * r > den THEN q + 1
       ELSE IF q % 2 = 0 THEN q ELSE q + 1

\* A checker that reports an issue no rule applies to as fully ready
percentage_of_ready_when_empty(total_score, max_possible) ==
    IF max_possible > 0 THEN RoundHalfEven(total_score * 1000, max_possible) ELSE 1000

\* round(total_score / max_possible * 100, 1), in tenths of a percent
percentage_of(total_score, max_possible) ==
    IF max_possible > 0 THEN RoundHalfEven(total_score * 1000, max_possible) ELSE 0

\* issue_type not in [t.lower() for t in applies_to], for a non-empty applies_to
rule_skipped(item, issue_type) ==
    LET applies_to == Get(item, "applies_to", << >>) IN
    /\ Len(applies_to) > 0
    /\ ~(\E k \in 1..Len(applies_to) : Lower(applies_to[k]) = issue_type)

\* Recommendations that list the failed optional checks as well
_generate_recommendations_listing_optional(results) ==
    LET failed_items == SelectSeq(results, LAMBDA r : ~r.passed)
        named(phrase) == \E k \in 1..Len(failed_items) :
                            Contains(phrase, Lower(failed_items[k].name))
    IN
    IF Len(failed_items) = 0
    THEN << "Issue meets all required Definition of Ready criteria!" >>
    ELSE << "Missing " \o IntToStr(Len(failed_items)) \o " required item(s):" >>
         \o [k \in 1..Len(failed_items) |->
                "  - " \o failed_items[k].name \o ": " \o failed_items[k].details]
         \o (IF named("story syntax")
             THEN << "\nTip: Use the story syntax template:", "   As a [USER TYPE]",
                     "   I want [FEATURE]", "   So that [BENEFIT]" >>
             ELSE << >>)
         \o (IF named("acceptance criteria")
             THEN << "\nTip: Use BDD/Gherkin format:", "   Given [precondition]",
                     "   When [action]", "   Then [expected outcome]" >>
             ELSE << >>)

\* _generate_recommendations(results, fields, issue_type); the bullet, tick and
\* lamp glyphs of the messages are left out.
_generate_recommendations(results) ==
    LET failed_items == SelectSeq(results, LAMBDA r : ~r.passed /\ ~r.optional)
        named(phrase) == \E k \in 1..Len(failed_items) :
                            Contains(phrase, Lower(failed_items[k].name))
    IN
    IF Len(failed_items) = 0
    THEN << "Issue meets all required Definition of Ready criteria!" >>
    ELSE << "Missing " \o IntToStr(Len(failed_items)) \o " required item(s):" >>
         \o [k \in 1..Len(failed_items) |->
                "  - " \o failed_items[k].name \o ": " \o failed_items[k].details]
         \o (IF named("story syntax")
             THEN << "\nTip: Use the story syntax template:", "   As a [USER TYPE]",
                     "   I want [FEATURE]", "   So that [BENEFIT]" >>
             ELSE << >>)
         \o (IF named("acceptance criteria")
             THEN << "\nTip: Use BDD/Gherkin format:", "   Given [precondition]",
                     "   When [action]", "   Then [expected outcome]" >>
             ELSE << >>)

\* A loop that adds the weight to the score whether or not the check passed
add_result_scoring_failures(acc, item, checked) ==
    IF checked.raised \/ "name" \notin DOMAIN item
    THEN [acc EXCEPT !.raised = TRUE]
    ELSE [raised       |-> FALSE,
          results      |-> Append(acc.results,
                             [name     |-> item.name,
                              passed   |-> checked.passed,
                              optional |-> Get(item, "optional", FALSE),
                              weight   |-> item.weight,
                              score    |-> IF checked.passed THEN item.weight ELSE 0,
                              details  |-> checked.details]),
          total_score  |-> acc.total_score + item.weight,
          max_possible |-> acc.max_possible + item.weight]

\* A loop that puts the newest result first
add_result_newest_first(acc, item, checked) ==
    IF checked.raised \/ "name" \notin DOMAIN item
    THEN [acc EXCEPT !.raised = TRUE]
    ELSE [raised       |-> FALSE,
          results      |-> << [name     |-> item.name,
                               passed   |-> checked.passed,
                               optional |-> Get(item, "optional", FALSE),
                               weight   |-> item.weight,
                               score    |-> IF checked.passed THEN item.weight ELSE 0,
                               details  |-> checked.details] >> \o acc.results,
          total_score  |-> acc.total_score + (IF checked.passed THEN item.weight ELSE 0),
          max_possible |-> acc.max_possible + item.weight]

\* results.append(...) and the two sums, for an item that was checked
add_result(acc, item, checked) ==
    IF checked.raised \/ "name" \notin DOMAIN item         \* item['name']
    THEN [acc EXCEPT !.raised = TRUE]
    ELSE [raised       |-> FALSE,
          results      |-> Append(acc.results,
                             [name     |-> item.name,
                              passed   |-> checked.passed,
                              optional |-> Get(item, "optional", FALSE),
                              weight   |-> item.weight,
                              score    |-> IF checked.passed THEN item.weight ELSE 0,
                              details  |-> checked.details]),
          total_score  |-> acc.total_score + (IF checked.passed THEN item.weight ELSE 0),
          max_possible |-> acc.max_possible + item.weight]

\* A loop that adds the weight to max_possible before it skips the item
check_item_counting_skipped(acc, item, fields, issue_type, fieldTable) ==
    IF "weight" \notin DOMAIN item THEN [acc EXCEPT !.raised = TRUE]
    ELSE IF rule_skipped(item, issue_type)
         THEN [acc EXCEPT !.max_possible = @ + item.weight]
    ELSE add_result(acc, item, _check_field(item, fields, issue_type, fieldTable))

\* One pass of the loop body over item
check_item(acc, item, fields, issue_type, fieldTable) ==
    IF rule_skipped(item, issue_type) THEN acc
    ELSE IF "weight" \notin DOMAIN item THEN [acc EXCEPT !.raised = TRUE]  \* item['weight']
    ELSE add_result(acc, item, _check_field(item, fields, issue_type, fieldTable))

RECURSIVE check_items(_, _, _, _, _, _)
\* The loop over self.checklist from item i on; acc is
\* [raised, results, total_score, max_possible].
check_items(items, i, fields, issue_type, fieldTable, acc) ==
    IF i > Len(items) \/ acc.raised THEN acc
    ELSE check_items(items, i + 1, fields, issue_type, fieldTable,
                     check_item(acc, items[i], fields, issue_type, fieldTable))

CallRaised == [raised |-> TRUE]

\* fields.get(key, {}).get('name', default): [raised, v]
name_of(fields, key, default) ==
    LET d == Get(fields, key, PDict(<< >>)) IN
    IF d.t # "dict" THEN [raised |-> TRUE, v |-> PNone]
    ELSE [raised |-> FALSE, v |-> Get(d.v, "name", default)]

\* The percentage, the recommendations and the returned dictionary
check_result(issue_data, fields, done, status) ==
    IF done.raised \/ status.raised THEN CallRaised
    ELSE [raised          |-> FALSE,
          score           |-> done.total_score,
          max_score       |-> done.max_possible,
          percentage      |-> percentage_of(done.total_score, done.max_possible),
          checklist       |-> done.results,
          recommendations |-> _generate_recommendations(done.results),
          issue_key       |-> Get(issue_data, "key", PNone),
          summary         |-> Get(fields, "summary", PNone),
          status          |-> status.v]

\* The loop of check_issue and what follows it, once the issue type is known
check_typed(issue_data, fields, typeName, items, fieldTable) ==
    IF typeName.raised \/ typeName.v.t # "str" THEN CallRaised   \* .get / .lower()
    ELSE check_result(issue_data, fields,
             check_items(items, 1, fields, Lower(typeName.v.v), fieldTable,
                         [raised |-> FALSE, results |-> << >>,
                          total_score |-> 0, max_possible |-> 0]),
             name_of(fields, "status", PNone))

\* check_issue(issue_data) on a checker with checklist items and alias table fieldTable
check_issue(issue_data, items, fieldTable) ==
    IF Get(issue_data, "fields", PDict(<< >>)).t # "dict" THEN CallRaised   \* fields.get
    ELSE check_typed(issue_data, Get(issue_data, "fields", PDict(<< >>)).v,
                     name_of(Get(issue_data, "fields", PDict(<< >>)).v, "issuetype", PStr("")),
                     items, fieldTable)

\* A check_issue that takes the rules it has skipped out of self.checklist
rules_after_check_without_skipped(items, issue_data) ==
    LET fields == Get(issue_data, "fields", PDict(<< >>)) IN
    IF fields.t # "dict" THEN items
    ELSE SelectSeq(items, LAMBDA item :
             ~rule_skipped(item, Lower(name_of(fields.v, "issuetype", PStr("")).v.v)))

\* self.checklist after check_issue(issue_data): the loop reads the rules and
\* assigns to none of them
rules_after_check(items, issue_data) == items

\* self.custom_fields after a call: it is only read
aliases_after_call(fieldTable) == fieldTable

---------------------------------------------------------------------------
(* DoRChecker.get_content_for_llm_review *)

MinReviewLen == 10

MinDescriptionReviewLen == 20

ReviewItem(field_name, criterion, content, prompt) ==
    [field_name |-> field_name, criterion |-> criterion,
     content |-> content, prompt |-> prompt]

\* The story-syntax and acceptance-criteria blocks: [raised, items]
review_custom_field(fields, fieldTable, alias, criterion, prompt) ==
    LET value == IF alias \in DOMAIN fieldTable
                 THEN Get(fields, fieldTable[alias], PNone)
                 ELSE PNone                              \* fields.get(None)
    IN
    IF ~Truthy(value) THEN [raised |-> FALSE, items |-> << >>]
    ELSE LET ct == content_text_of(value) IN
         IF ct.raised THEN [raised |-> TRUE, items |-> << >>]
         ELSE IF ct.text # "" /\ Len(ct.text) > MinReviewLen
              THEN [raised |-> FALSE,
                    items |-> << ReviewItem(alias, criterion, ct.text, prompt) >>]
              ELSE [raised |-> FALSE, items |-> << >>]

\* The six items of the description block; the 'demo' item has no 'content' key
description_items(desc_text) ==
    << ReviewItem("environments",
           "Environments defined (Staging/Pre-prod/Production)", desc_text,
           "Does this description mention or discuss deployment to different environments like staging, pre-production, and production? Look for environment-specific concerns or deployment strategies."),
       ReviewItem("security",
           "Security posture/implications/risks defined", desc_text,
           "Does this description address security considerations, risks, threats, authentication, authorization, data protection, or compliance requirements?"),
       ReviewItem("documentation",
           "Relevant documentation identified", desc_text,
           "Does this description reference or link to relevant documentation, wikis, Confluence pages, ADRs, or other knowledge base articles?"),
       [field_name |-> "demo",
        criterion  |-> "What to demo has been defined",
        prompt     |-> "Does this description specify what will be demonstrated or shown to stakeholders upon completion?"],
       ReviewItem("cost",
           "Cost implications considered", desc_text,
           "Does this description discuss cost implications, infrastructure expenses, licensing fees, or budget considerations?"),
       ReviewItem("telemetry",
           "Telemetry considered - metrics and alerts defined", desc_text,
           "Does this description specify telemetry, metrics, monitoring, alerts, dashboards, or observability requirements?") >>

\* A description block gated at the length the custom fields are gated at
review_description_gated_at_ten(fields) ==
    LET description == Get(fields, "description", PStr("")) IN
    IF ~Truthy(description) THEN [raised |-> FALSE, items |-> << >>]
    ELSE LET dt == content_text_of(description) IN
         IF dt.raised THEN [raised |-> TRUE, items |-> << >>]
         ELSE IF dt.text # "" /\ Len(dt.text) > MinReviewLen
              THEN [raised |-> FALSE, items |-> description_items(dt.text)]
              ELSE [raised |-> FALSE, items |-> << >>]

\* The description block: [raised, items]
review_description(fields) ==
    LET description == Get(fields, "description", PStr("")) IN
    IF ~Truthy(description) THEN [raised |-> FALSE, items |-> << >>]
    ELSE LET dt == content_text_of(description) IN
         IF dt.raised THEN [raised |-> TRUE, items |-> << >>]
         ELSE IF dt.text # "" /\ Len(dt.text) > MinDescriptionReviewLen
              THEN [raised |-> FALSE, items |-> description_items(dt.text)]
              ELSE [raised |-> FALSE, items |-> << >>]

\* get_content_for_llm_review(issue_data): [raised, llm_reviews]
get_content_for_llm_review(issue_data, fieldTable) ==
    LET fieldsValue == Get(issue_data, "fields", PDict(<< >>)) IN
    IF fieldsValue.t # "dict" THEN CallRaised
    ELSE
    LET fields == fieldsValue.v
        story == review_custom_field(fields, fieldTable, "story_syntax",
                    "Story syntax quality (As a... I want... So that...)",
                    "Evaluate if this story syntax follows the format \"As a [user type] I want [feature] So that [benefit]\" and provides meaningful context. Is it complete and valuable, or just template text?")
        criteria == review_custom_field(fields, fieldTable, "acceptance_criteria",
                    "Acceptance criteria quality (BDD/Gherkin)",
                    "Evaluate if these acceptance criteria use proper BDD/Gherkin format (Given/When/Then or Feature/Scenario format) and define testable, specific outcomes. Are they meaningful and complete, or just boilerplate?")
        desc == review_description(fields)
    IN
    IF story.raised \/ criteria.raised \/ desc.raised THEN CallRaised
    ELSE [raised |-> FALSE, llm_reviews |-> story.items \o criteria.items \o desc.items]

---------------------------------------------------------------------------
(* BacklogCull._analyze_issue *)

\* A timestamp a tracker sends is the value [t |-> "time", v |-> h]: the
\* instant h hours after the epoch.  date_parser.parse raises on anything else.
PTime(h) == [t |-> "time", v |-> h]

HoursPerDay == 24

\* timedelta.days of (later - earlier): whole days, rounded down
DaysBetween(later, earlier) == (later - earlier) \div HoursPerDay

AgeCapDays == 365

InactivityCapDays == 180

AgePoints == 40

InactivityPoints == 40

RefinementPoints == 20

Min(a, b) == IF a < b THEN a ELSE b

\* The scores below are exact fractions over StalenessDen
StalenessDen == AgeCapDays * InactivityCapDays

\* A sum whose age and inactivity factors are not capped
staleness_of_uncapped(age_days, days_since_update, refinement_score) ==
    age_days * AgePoints * InactivityCapDays
    + days_since_update * InactivityPoints * AgeCapDays
    + ((1000 - refinement_score) * RefinementPoints * StalenessDen) \div 1000

\* age_factor + inactivity_factor + refinement_factor, times StalenessDen;
\* refinement_score is in tenths of a percent
staleness_of(age_days, days_since_update, refinement_score) ==
    Min(age_days, AgeCapDays) * AgePoints * InactivityCapDays
    + Min(days_since_update, InactivityCapDays) * InactivityPoints * AgeCapDays
    + ((1000 - refinement_score) * RefinementPoints * StalenessDen) \div 1000

\* d.get(key, {}).get(sub, default) raises when the value is not a dict;
\* assignee['displayName'] raises when the key is missing
context_raises(fields) ==
    \/ \E key \in {"priority", "issuetype", "status", "comment", "watches"} :
          Get(fields, key, PDict(<< >>)).t # "dict"
    \/ LET assignee == Get(fields, "assignee", PNone) IN
       Truthy(assignee) /\ (assignee.t # "dict" \/ "displayName" \notin DOMAIN assignee.v)

\* An analysis in which only issues a year old are candidates
analysis_result_counting_age(issue_data, fields, age_days, days_since_update, dor_result, activity_threshold, refinement_threshold) ==
    IF dor_result.raised \/ context_raises(fields) THEN CallRaised
    ELSE [raised            |-> FALSE,
          issue_key         |-> issue_data.key,
          age_days          |-> age_days,
          days_since_update |-> days_since_update,
          refinement_score  |-> dor_result.percentage,
          staleness_score   |->
              RoundHalfEven(10 * staleness_of(age_days, days_since_update,
                                              dor_result.percentage), StalenessDen),
          is_candidate      |-> /\ age_days >= AgeCapDays
                                /\ days_since_update >= activity_threshold
                                /\ dor_result.percentage < 10 * refinement_threshold,
          created           |-> fields["created"].v \div HoursPerDay,
          updated           |-> fields["updated"].v \div HoursPerDay]

\* The scores and the returned dictionary (its display-only keys left out)
analysis_result(issue_data, fields, age_days, days_since_update, dor_result, activity_threshold, refinement_threshold) ==
    IF dor_result.raised \/ context_raises(fields) THEN CallRaised
    ELSE [raised            |-> FALSE,
          issue_key         |-> issue_data.key,
          age_days          |-> age_days,
          days_since_update |-> days_since_update,
          refinement_score  |-> dor_result.percentage,
          staleness_score   |->
              RoundHalfEven(10 * staleness_of(age_days, days_since_update,
                                              dor_result.percentage), StalenessDen),
          is_candidate      |-> /\ days_since_update >= activity_threshold
                                /\ dor_result.percentage < 10 * refinement_threshold,
          created           |-> fields["created"].v \div HoursPerDay,
          updated           |-> fields["updated"].v \div HoursPerDay]

\* _analyze_issue(issue, activity_threshold, refinement_threshold) at time now
_analyze_issue(issue_data, activity_threshold, refinement_threshold, items, fieldTable, now) ==
    IF "fields" \notin DOMAIN issue_data \/ "key" \notin DOMAIN issue_data
    THEN CallRaised                                       \* issue['fields'], issue['key']
    ELSE IF issue_data.fields.t # "dict" THEN CallRaised
    ELSE IF \E key \in {"created", "updated"} :
               \/ key \notin DOMAIN issue_data.fields.v
               \/ issue_data.fields.v[key].t # "time"
         THEN CallRaised                                  \* KeyError, ParserError
    ELSE analysis_result(issue_data, issue_data.fields.v,
             DaysBetween(now, issue_data.fields.v["created"].v),
             DaysBetween(now, issue_data.fields.v["updated"].v),
             check_issue(issue_data, items, fieldTable),
             activity_threshold, refinement_threshold)

---------------------------------------------------------------------------
(* BacklogCull.run_analysis and RefinementPrep.run_analysis *)

\* a or b: a when it is truthy, b otherwise
Or(a, b) == IF Truthy(a) THEN a ELSE b

\* "Use overrides if provided"
run_thresholds(overrides, config) ==
    [age_threshold        |-> Or(overrides.age_threshold,
                                 PInt(config.age_threshold_days)).v,
     activity_threshold   |-> Or(overrides.activity_threshold,
                                 PInt(config.no_activity_days)).v,
     refinement_threshold |-> Or(overrides.refinement_threshold,
                                 PInt(config.min_refinement_score)).v]

\* _fetch_old_issues(age_threshold_days) at time now, against a tracker that
\* holds backlog (unresolved issues, oldest first): the issues created before
\* the day of the cutoff, or no issue when the search has failed
_fetch_old_issues(backlog, age_threshold_days, now, answered) ==
    LET cutoff_day == (now - age_threshold_days * HoursPerDay) \div HoursPerDay IN
    IF ~answered THEN << >>
    ELSE SelectSeq(backlog,
             LAMBDA i : i.fields.v["created"].v < cutoff_day * HoursPerDay)

\* The state of a loop over a batch
LoopState(keptItems, warned, raised) ==
    [kept |-> keptItems, warnings |-> warned, raised |-> raised]

\* An except clause that lets the exception go on
warn_reraising(acc, issue) == LoopState(acc.kept, acc.warnings, TRUE)

\* The except clause of both loops: the warning names issue['key']
warn(acc, issue) ==
    IF "key" \in DOMAIN issue
    THEN LoopState(acc.kept, Append(acc.warnings, PyStr(issue.key)), FALSE)
    ELSE LoopState(acc.kept, acc.warnings, TRUE)

\* One iteration of the loop of BacklogCull.run_analysis
cull_step(acc, issue, analysis) ==
    IF analysis.raised THEN warn(acc, issue)
    ELSE IF analysis.is_candidate
         THEN LoopState(Append(acc.kept, analysis), acc.warnings, FALSE)
         ELSE acc

\* An insertion that puts the candidate ahead of those that score as much
insert_candidate_ahead_of_equals(sorted, c) ==
    LET n == Cardinality({ k \in 1..Len(sorted) :
                             sorted[k].staleness_score > c.staleness_score })
    IN SubSeq(sorted, 1, n) \o << c >> \o SubSeq(sorted, n + 1, Len(sorted))

\* sorted so far, with one more candidate put behind those that score as much
insert_candidate(sorted, c) ==
    LET n == Cardinality({ k \in 1..Len(sorted) :
                             sorted[k].staleness_score >= c.staleness_score })
    IN SubSeq(sorted, 1, n) \o << c >> \o SubSeq(sorted, n + 1, Len(sorted))

RECURSIVE sort_candidates(_)
\* candidates.sort(key=lambda x: x['staleness_score'], reverse=True)
sort_candidates(candidates) ==
    IF candidates = << >> THEN << >>
    ELSE insert_candidate(sort_candidates(SubSeq(candidates, 1, Len(candidates) - 1)),
                          candidates[Len(candidates)])

\* One iteration of the loop of RefinementPrep.run_analysis
prep_step(acc, issue, dor_result) ==
    IF dor_result.raised THEN warn(acc, issue)
    ELSE LoopState(Append(acc.kept, [issue |-> issue, dor_result |-> dor_result]),
                   acc.warnings, FALSE)

\* What a run has displayed
Shown(items) == [raised |-> FALSE, shown |-> items]

---------------------------------------------------------------------------
(* Configurations *)

MaxWeight == 2

StorySyntaxId == "customfield_12015"

AcceptanceCriteriaId == "customfield_11874"

AccountCodeId == "customfield_11850"

FieldTable ==
    [story_syntax        |-> StorySyntaxId,
     acceptance_criteria |-> AcceptanceCriteriaId,
     account_code        |-> AccountCodeId]

TitleRule == [name |-> "Clear title", field |-> "summary"]

ParentRule == [name |-> "Parent epic", field |-> "parent", optional |-> TRUE]

StoryRule ==
    [name |-> "Story syntax", field |-> "story_syntax", optional_for_non_stories |-> TRUE]

CriteriaRule ==
    [name |-> "Acceptance criteria", field |-> "acceptance_criteria",
     applies_to |-> <<"Story", "Bug">>]

AccountRule == [name |-> "Account code", field |-> "account_code"]

SecurityRule == [name |-> "Security", field |-> "security", check_in_description |-> TRUE]

OptionalAccountRule == [name |-> "Account code", field |-> "account_code", optional |-> TRUE]

\* A rule written without its name
UnnamedRule == [field |-> "account_code"]

\* The rule lists configured, before their weights
RuleLists ==
    { << >>,
      <<TitleRule>>,
      <<CriteriaRule>>,
      <<StoryRule, CriteriaRule>>,
      <<TitleRule, StoryRule, ParentRule>>,
      <<AccountRule, SecurityRule>>,
      <<TitleRule, CriteriaRule, StoryRule, SecurityRule>> }

WithWeights(rules, weights) ==
    [i \in 1..Len(rules) |-> rules[i] @@ [weight |-> weights[i]]]

\* definition_of_ready: a rule list with a weight of 1..MaxWeight on every rule
Checklists ==
    UNION { { WithWeights(rules, w) : w \in [1..Len(rules) -> 1..MaxWeight] } :
            rules \in RuleLists }

\* A rule that names a field by alias and carries a field identifier as well
ExplicitRule ==
    [name |-> "Account code (by id)", field |-> "story_syntax", field_name |-> AccountCodeId]

\* A rule whose field is a raw custom-field identifier
RawRule == [name |-> "Criteria (raw id)", field |-> AcceptanceCriteriaId]

\* A rule whose field is no alias, no identifier and no literal field
UnknownRule == [name |-> "Team", field |-> "team"]

\* A rule without a field
FieldlessRule == [name |-> "Estimate"]

\* A rule for the summary that carries a field identifier as well
SummaryByIdRule == [name |-> "Title", field |-> "summary", field_name |-> AccountCodeId]

\* A rule for the parent that carries a field identifier as well
ParentByIdRule == [name |-> "Epic", field |-> "parent", field_name |-> AccountCodeId]

\* A description rule whose field name is not in the keyword table
RollbackRule == [name |-> "Rollback plan", field |-> "rollback", check_in_description |-> TRUE]

\* A description rule whose field name is an alias of the custom-field table
AliasInDescriptionRule ==
    [name |-> "Criteria in text", field |-> "acceptance_criteria",
     check_in_description |-> TRUE]

\* A description rule whose field name is a raw custom-field identifier
RawInDescriptionRule ==
    [name |-> "Account in text", field |-> AccountCodeId, check_in_description |-> TRUE]

\* A description rule that carries a field identifier as well
ExplicitInDescriptionRule ==
    [name |-> "Security (by id)", field |-> "security", field_name |-> AccountCodeId,
     check_in_description |-> TRUE]

\* A description rule without a field
FieldlessInDescriptionRule == [name |-> "Notes", check_in_description |-> TRUE]

\* More configured rule lists, with their weights
MoreChecklists ==
    { WithWeights(<<RollbackRule, SecurityRule>>, <<1, MaxWeight>>),
      WithWeights(<<AliasInDescriptionRule, RawInDescriptionRule,
                    ExplicitInDescriptionRule>>, <<1, 1, MaxWeight>>),
      WithWeights(<<FieldlessInDescriptionRule, TitleRule>>, <<1, MaxWeight>>),
      WithWeights(<<TitleRule, UnnamedRule>>, <<1, MaxWeight>>),
      WithWeights(<<ParentRule, OptionalAccountRule>>, <<MaxWeight, 1>>),
      WithWeights(<<ExplicitRule, RawRule, UnknownRule>>, <<1, MaxWeight, 1>>),
      WithWeights(<<SummaryByIdRule, FieldlessRule, ParentByIdRule>>, <<MaxWeight, 1, 1>>) }

\* Rule lists in which a rule is written without its weight
Unweighted ==
    { << TitleRule @@ [weight |-> 1], AccountRule >>,
      << UnnamedRule >> }

\* DoRChecker.__init__ raises KeyError when a rule has no weight
init_raises(items) == \E i \in 1..Len(items) : "weight" \notin DOMAIN items[i]

\* backlog_cull: the thresholds of the configuration file
DefaultCullConfig ==
    [age_threshold_days |-> 180, no_activity_days |-> 90, min_refinement_score |-> 30]

CullConfigs ==
    { DefaultCullConfig,
      [age_threshold_days |-> 90, no_activity_days |-> 180, min_refinement_score |-> 30] }

\* The rule lists of the checkers the batch tools run with
RunChecklists ==
    { WithWeights(<<TitleRule, StoryRule, ParentRule>>, <<MaxWeight, MaxWeight, 1>>),
      WithWeights(<<AccountRule, SecurityRule>>, <<1, 1>>) }

---------------------------------------------------------------------------
(* Issues *)

TextNode(s) == PDict([type |-> PStr("text"), text |-> PStr(s)])

Paragraph(children) == PDict([type |-> PStr("paragraph"), content |-> PList(children)])

Doc(children) ==
    PDict([type |-> PStr("doc"), version |-> PInt(1), content |-> PList(children)])

\* One paragraph holding one text leaf
DocOf(s) == Doc(<< Paragraph(<< TextNode(s) >>) >>)

Skeleton == "As a I want So that"

FilledStory == "As a user I want to test So that it works"

LongStory == "As a data analyst I want to export monthly billing reports as CSV so that finance can reconcile spend without manual copy-paste"

\* Values of the story-syntax field
StoryValues ==
    { PNone,
      DocOf(Skeleton),
      DocOf("As a [user type] I want [feature] So that [benefit]"),
      DocOf("As a I want So that we ship it"),
      DocOf(FilledStory),
      DocOf("See the epic"),
      PStr("  As a\n I would like\tSo that "),
      PStr(LongStory),
      \* a document whose content is null
      PDict([type |-> PStr("doc"), content |-> PNone]) }

\* What the other fields hold: nothing, or all filled in
Bare == [summary |-> PStr("Fix")]

Filled ==
    [summary     |-> PStr("Fix login page"),
     description |-> PStr("This will be deployed to staging and production environments. Security has been reviewed."),
     parent      |-> PDict([key |-> PStr("DD-1")]),
     status      |-> PDict([name |-> PStr("Not Ready")])]
    @@ (AcceptanceCriteriaId :> DocOf("Given a user When they log in Then they see the page"))
    @@ (AccountCodeId :> PDict([value |-> PStr("CDP Feature Development")]))

\* issuetype: absent, or a name
TypeFields == { << >> } \cup { [issuetype |-> PDict([name |-> PStr(n)])] :
                               n \in {"Story", "Bug", "task"} }

Now == 500 * HoursPerDay + 5

\* created and updated, (age, days since update) whole days and 7 hours ago
TimeFields(days) ==
    [created |-> PTime(Now - (days[1] * HoursPerDay + 7)),
     updated |-> PTime(Now - (days[2] * HoursPerDay + 7))]

DayPairs == { <<400, 200>>, <<365, 180>>, <<364, 179>>, <<200, 0>>, <<0, 0>> }

Issue(key, fields) == [key |-> PStr(key), fields |-> PDict(fields)]

Issues ==
    { Issue("DD-7", ty @@ (StorySyntaxId :> story) @@ rest @@ TimeFields(<<400, 200>>)) :
        ty \in TypeFields, story \in StoryValues, rest \in {Bare, Filled} }

\* Issues around the length gates of get_content_for_llm_review, and with a
\* rich-document or null description
DocDescriptionIssues ==
    { Issue("DD-8", [issuetype   |-> PDict([name |-> PStr("Story")]),
                     description |-> d]
                    @@ (StorySyntaxId :> story)
                    @@ (AcceptanceCriteriaId :> criteria)) :
        d \in { DocOf("Short text"),
                PStr("Exactly twenty chars"),
                PStr("Exactly 21 characters"),
                Doc(<< Paragraph(<< TextNode("We deploy to staging first."),
                                    TextNode("Then production, with a security review.") >>) >>),
                PNone },
        story \in { DocOf("Ten chars."), PStr("Eleven char") },
        criteria \in { PNone, PStr("Ten chars."), DocOf("Eleven char") } }

\* Summaries: null, empty, blank, of three characters, of three within
\* whitespace, of four, of four within whitespace, longer
SummaryValues ==
    { PNone, PStr(""), PStr("   "), PStr("Fix"), PStr(" Fix\n"), PStr("Fix!"),
      PStr("  Edit "), PStr("Fix login page") }

\* Parents: null, an empty object, a link
ParentValues == { PNone, PDict(<< >>), PDict([key |-> PStr("DD-1")]) }

\* Issues with and without a summary and a parent
LiteralFieldIssues ==
    { Issue("DD-4", [issuetype |-> PDict([name |-> PStr("Story")])]) }
    \cup { Issue("DD-5", [issuetype |-> PDict([name |-> PStr("Story")]),
                          summary |-> title, parent |-> parent]) :
             title \in SummaryValues, parent \in ParentValues }

\* Values of a custom field, by shape: numbers, strings, lists, reference
\* objects, objects of neither kind, rich documents, null
FieldValues ==
    { PNone,
      PInt(0), PInt(7),
      PStr(""), PStr("   "), PStr("CDP"), PStr(" 41 "),
      PList(<< >>), PList(<< PStr("a"), PStr("b") >>),
      PDict(<< >>), PDict([value |-> PStr("Platform")]), PDict([id |-> PStr("3")]),
      Doc(<< >>), DocOf("See the epic"), DocOf("A meaningful long account text") }

\* Stories and bugs that hold such a value in the story field and in the
\* account code
ShapedIssues ==
    { Issue("DD-6", [issuetype |-> PDict([name |-> PStr(n)]),
                     summary   |-> PStr("Fix login page")]
                    @@ (StorySyntaxId :> v) @@ (AccountCodeId :> v)) :
        n \in {"Story", "Bug"}, v \in FieldValues }

\* Descriptions of 50 and of 51 characters that name a keyword, longer ones
\* with keywords in capitals and without a keyword, a short one with a
\* keyword, and a rich document in which a keyword is split over two leaves
Descriptions ==
    { PStr("Security was reviewed by the platform team in May."),
      PStr("Security was reviewed by the platform team in June."),
      PStr("A RISK was found; the SECURITY team has a rollback plan for it."),
      PStr("The page layout is changed and the old one is removed afterwards."),
      PStr("Low risk."),
      Doc(<< Paragraph(<< TextNode("The secu"),
                          TextNode("rity of the page is reviewed by the platform team") >>) >>) }

\* Stories with such a description, with and without an account code
DescribedIssues ==
    { Issue("DD-3", [issuetype   |-> PDict([name |-> PStr("Story")]),
                     summary     |-> PStr("Fix login page"),
                     description |-> d] @@ rest) :
        d \in Descriptions,
        rest \in { << >>, (AccountCodeId :> PDict([value |-> PStr("Platform")])) } }

\* Issues whose type is null, or an object without a name
UntypedIssues ==
    { Issue("DD-2", ty @@ (StorySyntaxId :> story) @@ rest) :
        ty \in { [issuetype |-> PNone], [issuetype |-> PDict([id |-> PStr("10001")])] },
        story \in { PNone, DocOf(Skeleton), DocOf(FilledStory) },
        rest \in {Bare, Filled} }

\* Issues given to check_issue
CheckedIssues ==
    Issues \cup DocDescriptionIssues \cup LiteralFieldIssues \cup ShapedIssues
    \cup DescribedIssues \cup UntypedIssues

\* Issues given to get_content_for_llm_review
ReviewIssues ==
    { i \in Issues : Get(i.fields.v, "issuetype", PNone) = PDict([name |-> PStr("Story")]) }
    \cup DocDescriptionIssues

\* Issues given to _analyze_issue
AnalyzedIssues ==
    { Issue("DD-9", ty @@ (StorySyntaxId :> story) @@ rest @@ TimeFields(days)) :
        ty \in { [issuetype |-> PDict([name |-> PStr(n)])] : n \in {"Story", "task"} },
        story \in { PNone, DocOf(FilledStory) },
        rest \in {Bare, Filled},
        days \in DayPairs }

ActivityThresholds == {90, 180}

RefinementThresholds == {30}

\* Arguments of _extract_adf_text: documents, malformed documents, other values
Documents ==
    { Doc(<< Paragraph(<< TextNode("As a user"), TextNode("I want X") >>) >>),
      Doc(<< Paragraph(<< TextNode("As a user") >>),
             PDict([type |-> PStr("rule")]),
             Paragraph(<< PDict([type |-> PStr("hardBreak")]), TextNode("I want X") >>) >>),
      Doc(<< PDict([type |-> PStr("bulletList"), content |-> PList(<<
                PDict([type |-> PStr("listItem"), content |-> PList(<<
                    Paragraph(<< TextNode("one") >>) >>)]),
                PDict([type |-> PStr("listItem"), content |-> PList(<<
                    Paragraph(<< TextNode("two"), TextNode("three") >>) >>)]) >>)]),
             Paragraph(<< TextNode("four") >>) >>),
      Doc(<< Paragraph(<< >>) >>),
      DocOf(""),
      \* a text node that has children, a list among the children
      PDict([type |-> PStr("text"), text |-> PStr("a"),
             content |-> PList(<< PList(<< TextNode("b"), TextNode("c") >>), TextNode("d") >>)]),
      PDict(<< >>),
      PDict([type |-> PStr("doc")]),
      \* children that are not nodes
      Doc(<< PStr("loose"), PInt(7), PNone, TextNode("kept") >>),
      \* content that is not a list
      PDict([type |-> PStr("doc"), content |-> PStr("abc")]),
      PDict([type |-> PStr("doc"), content |-> TextNode("in a dict")]),
      PDict([type |-> PStr("doc"), content |-> PNone]),
      PDict([type |-> PStr("doc"), content |-> PInt(3)]),
      Doc(<< TextNode("before"), PDict([type |-> PStr("paragraph"), content |-> PNone]) >>),
      \* text nodes without a string payload
      Doc(<< PDict([type |-> PStr("text")]), TextNode("after") >>),
      Doc(<< PDict([type |-> PStr("text"), text |-> PNone]) >>),
      Doc(<< PDict([type |-> PStr("text"), text |-> PInt(5)]) >>),
      \* not documents
      PStr("As a user I want X"),
      PStr(""),
      PInt(42),
      PNone,
      PList(<< PStr("a"), PInt(1) >>) }

\* The issues of the tracker's backlog, oldest first: (age, days since
\* update) and what they hold besides
BacklogIssues ==
    << Issue("DD-11", [issuetype |-> PDict([name |-> PStr("Story")])]
                      @@ Bare @@ TimeFields(<<450, 95>>)),
       Issue("DD-12", [issuetype |-> PDict([name |-> PStr("Story")])]
                      @@ Filled @@ (StorySyntaxId :> DocOf(FilledStory))
                      @@ TimeFields(<<410, 200>>)),
       Issue("DD-13", [issuetype |-> PDict([name |-> PStr("Story")])]
                      @@ Bare @@ TimeFields(<<400, 200>>)),
       \* the tracker sends null for a priority that is not set
       Issue("DD-14", [issuetype |-> PDict([name |-> PStr("Bug")]), priority |-> PNone]
                      @@ Bare @@ TimeFields(<<390, 190>>)),
       Issue("DD-15", [issuetype |-> PDict([name |-> PStr("Story")])]
                      @@ Bare @@ TimeFields(<<380, 10>>)),
       Issue("DD-16", [issuetype |-> PDict([name |-> PStr("Story")])]
                      @@ Bare @@ TimeFields(<<365, 180>>)),
       \* a timestamp that cannot be parsed
       Issue("DD-17", [issuetype |-> PDict([name |-> PStr("Story")]),
                       updated   |-> PStr("last week")]
                      @@ Bare @@ TimeFields(<<300, 100>>)),
       Issue("DD-18", [issuetype |-> PDict([name |-> PStr("Story")])]
                      @@ Bare @@ TimeFields(<<100, 120>>)) >>

MaxBatch == 3

\* The elements of a sequence at the indices chosen, in their order
Chosen(seq, indices) ==
    LET F[k \in 0..Len(seq)] ==
            IF k = 0 THEN << >>
            ELSE IF k \in indices THEN Append(F[k - 1], seq[k]) ELSE F[k - 1]
    IN F[Len(seq)]

\* What the tracker may hold: up to MaxBatch of these issues, oldest first
Backlogs ==
    { Chosen(BacklogIssues, I) :
        I \in { J \in SUBSET (1..Len(BacklogIssues)) : Cardinality(J) <= MaxBatch } }

\* The thresholds a caller passes to run_analysis: None, or a number
Overrides ==
    { [age_threshold |-> PNone, activity_threshold |-> PNone,
       refinement_threshold |-> PNone],
      [age_threshold |-> PInt(300), activity_threshold |-> PNone,
       refinement_threshold |-> PNone],
      [age_threshold |-> PNone, activity_threshold |-> PInt(100),
       refinement_threshold |-> PInt(50)],
      [age_threshold |-> PInt(0), activity_threshold |-> PInt(0),
       refinement_threshold |-> PInt(0)] }

\* Issues in "Not Ready" status: bare, filled in, and two that cannot be scored
NotReadyIssues ==
    { Issue("DD-21", [issuetype |-> PDict([name |-> PStr("Story")])] @@ Bare),
      Issue("DD-22", [issuetype |-> PDict([name |-> PStr("Story")])]
                     @@ Filled @@ (StorySyntaxId :> DocOf(FilledStory))),
      \* a story document whose content is null, a parent that is not an object
      Issue("DD-23", [issuetype |-> PDict([name |-> PStr("Story")]),
                      parent    |-> PStr("DD-1")]
                     @@ (StorySyntaxId :> PDict([type |-> PStr("doc"), content |-> PNone]))
                     @@ Bare),
      \* an account code that is a rich document with a number for content
      Issue("DD-24", [issuetype |-> PDict([name |-> PStr("Bug")]), summary |-> PInt(7)]
                     @@ (AccountCodeId :> PDict([type |-> PStr("doc"), content |-> PInt(3)]))
                     @@ Filled) }

\* What the tracker answers to the search of RefinementPrep: up to MaxBatch
\* distinct issues, in board order
NotReadyBatches ==
    { b \in UNION { [1..n -> NotReadyIssues] : n \in 0..MaxBatch } :
        \A i, j \in 1..Len(b) : i # j => b[i] # b[j] }

MaxCalls == 3

\* The issues one checker is asked about, again and again
SessionIssues ==
    { Issue("DD-31", [issuetype |-> PDict([name |-> PStr("Story")])] @@ Bare),
      Issue("DD-32", [issuetype |-> PDict([name |-> PStr("task")])]
                     @@ Filled @@ (StorySyntaxId :> DocOf(FilledStory))),
      Issue("DD-33", [issuetype |-> PDict([name |-> PStr("Bug")])]
                     @@ Filled @@ (StorySyntaxId :> DocOf(Skeleton))) }

\* The rule lists of those checkers
SessionChecklists ==
    { WithWeights(<<TitleRule, CriteriaRule, StoryRule, SecurityRule>>,
                  <<1, MaxWeight, 1, MaxWeight>>),
      WithWeights(<<StoryRule, CriteriaRule>>, <<MaxWeight, 1>>) }

\* Texts given to the two heuristics: around the length gates, with and
\* without the fixed phrases, in other case and with other whitespace
HeuristicTexts ==
    { "", "   ",
      "Fifteen chars!!",
      "Nineteen chars long",
      "Exactly twenty chars",
      "A plain sentence, 25 long",
      "  Nineteen chars long   ",
      "As a I would like So that we can ship the release",
      "AS A\n I WOULD LIKE\tSO THAT",
      "Steps to reproduce 1. Login 2. Navigate to page 3. Click stuff",
      "Please describe what the expected behavior is",
      "WHAT ACTUALLY HAPPENS in the field",
      "What actually happened to the build",
      "As a I want So that we ship it",
      Skeleton,
      "As a [user type] I want [feature] So that [benefit]",
      "As a [user type] I would like [feature] So that [benefit]",
      "As a dev I want tea",
      "As a dev I would like tea",
      "As a tester I want more tests",
      "As a tester I want more tests.",
      "As a   dev   I want   some      tea",
      "I want tea",
      "As a dev",
      LongStory }

\* What a heuristic has answered
Answer(value) == [raised |-> FALSE, value |-> value]

---------------------------------------------------------------------------
(* The checker under a sequential caller *)

Init ==
    /\ checklist \in { items \in Checklists \cup MoreChecklists \cup Unweighted :
                         ~init_raises(items) }
    /\ custom_fields = FieldTable
    /\ pc = "idle"
    /\ arg = PNone
    /\ result = PNone
    /\ cull_config = DefaultCullConfig
    /\ thresholds = PNone
    /\ issues = << >>
    /\ position = 0
    /\ kept = << >>
    /\ warnings = << >>
    /\ history = << >>

CheckIssue ==
    /\ pc = "idle"
    /\ \E i \in CheckedIssues :
          /\ arg' = i
          /\ result' = check_issue(i, checklist, custom_fields)
    /\ pc' = "check_issue"
    /\ UNCHANGED <<checklist, custom_fields, cull_config, loopVars, history>>

GetContentForLlmReview ==
    /\ pc = "idle"
    /\ \E i \in ReviewIssues :
          /\ arg' = i
          /\ result' = get_content_for_llm_review(i, custom_fields)
    /\ pc' = "get_content_for_llm_review"
    /\ UNCHANGED <<checklist, custom_fields, cull_config, loopVars, history>>

ExtractAdfText ==
    /\ pc = "idle"
    /\ \E adf \in Documents :
          /\ arg' = adf
          /\ result' = _extract_adf_text(adf)
    /\ pc' = "_extract_adf_text"
    /\ UNCHANGED <<checklist, custom_fields, cull_config, loopVars, history>>

AnalyzeIssue ==
    /\ pc = "idle"
    /\ \E i \in AnalyzedIssues, a \in ActivityThresholds, r \in RefinementThresholds :
          /\ arg' = [issue |-> i, activity_threshold |-> a, refinement_threshold |-> r]
          /\ result' = _analyze_issue(i, a, r, checklist, custom_fields, Now)
    /\ pc' = "_analyze_issue"
    /\ UNCHANGED <<checklist, custom_fields, cull_config, loopVars, history>>

HasMeaningfulContent ==
    /\ pc = "idle"
    /\ \E text \in HeuristicTexts :
          /\ arg' = PStr(text)
          /\ result' = Answer(_has_meaningful_content(text))
    /\ pc' = "_has_meaningful_content"
    /\ UNCHANGED <<checklist, custom_fields, cull_config, loopVars, history>>

IsStorySyntaxTemplate ==
    /\ pc = "idle"
    /\ \E text \in HeuristicTexts :
          /\ arg' = PStr(text)
          /\ result' = Answer(_is_story_syntax_template(text))
    /\ pc' = "_is_story_syntax_template"
    /\ UNCHANGED <<checklist, custom_fields, cull_config, loopVars, history>>

\* The caller has taken the result
Return ==
    /\ pc # "idle"
    /\ pc' = "idle"
    /\ arg' = PNone
    /\ result' = PNone
    /\ UNCHANGED <<checklist, custom_fields, cull_config, loopVars, history>>

Next ==
    \/ CheckIssue
    \/ GetContentForLlmReview
    \/ ExtractAdfText
    \/ AnalyzeIssue
    \/ HasMeaningfulContent
    \/ IsStorySyntaxTemplate
    \/ Return

Spec == Init /\ [][Next]_vars

---------------------------------------------------------------------------
(* The batch tools: one run at a time, one issue of the batch per step *)

RunInit ==
    /\ checklist \in RunChecklists
    /\ custom_fields = FieldTable
    /\ pc = "idle"
    /\ arg = PNone
    /\ result = PNone
    /\ cull_config \in CullConfigs
    /\ thresholds = PNone
    /\ issues = << >>
    /\ position = 0
    /\ kept = << >>
    /\ warnings = << >>
    /\ history = << >>

\* BacklogCull.run_analysis, down to the loop; it returns when nothing is fetched
CullStart ==
    /\ pc = "idle"
    /\ \E backlog \in Backlogs, overrides \in Overrides, answered \in BOOLEAN :
          LET used == run_thresholds(overrides, cull_config)
              fetched == _fetch_old_issues(backlog, used.age_threshold, Now, answered)
          IN /\ arg' = [backlog |-> backlog, overrides |-> overrides]
             /\ thresholds' = used
             /\ issues' = fetched
             /\ IF fetched = << >>
                THEN pc' = "backlog_cull_done" /\ position' = 0 /\ result' = Shown(<< >>)
                ELSE pc' = "backlog_cull" /\ position' = 1 /\ result' = PNone
    /\ kept' = << >>
    /\ warnings' = << >>
    /\ UNCHANGED <<checklist, custom_fields, cull_config, history>>

\* One iteration of the loop; after the last one the candidates are sorted
\* and displayed
CullStep ==
    /\ pc = "backlog_cull"
    /\ LET after == cull_step(LoopState(kept, warnings, FALSE), issues[position],
                        _analyze_issue(issues[position], thresholds.activity_threshold,
                                       thresholds.refinement_threshold,
                                       checklist, custom_fields, Now))
       IN IF after.raised
          THEN /\ pc' = "backlog_cull_done"
               /\ result' = CallRaised
               /\ UNCHANGED <<kept, warnings, position>>
          ELSE /\ warnings' = after.warnings
               /\ position' = position + 1
               /\ IF position = Len(issues)
                  THEN /\ kept' = sort_candidates(after.kept)
                       /\ result' = Shown(sort_candidates(after.kept))
                       /\ pc' = "backlog_cull_done"
                  ELSE /\ kept' = after.kept
                       /\ UNCHANGED <<result, pc>>
    /\ UNCHANGED <<checklist, custom_fields, cull_config, arg, thresholds, issues, history>>

\* RefinementPrep.run_analysis, down to the loop
PrepStart ==
    /\ pc = "idle"
    /\ \E batch \in NotReadyBatches, answered \in BOOLEAN :
          LET fetched == IF answered THEN batch ELSE << >> IN
          /\ arg' = [backlog |-> batch]
          /\ issues' = fetched
          /\ IF fetched = << >>
             THEN pc' = "refinement_prep_done" /\ position' = 0 /\ result' = Shown(<< >>)
             ELSE pc' = "refinement_prep" /\ position' = 1 /\ result' = PNone
    /\ kept' = << >>
    /\ warnings' = << >>
    /\ UNCHANGED <<checklist, custom_fields, cull_config, thresholds, history>>

\* One iteration of the loop; after the last one the scored issues are displayed
PrepStep ==
    /\ pc = "refinement_prep"
    /\ LET after == prep_step(LoopState(kept, warnings, FALSE), issues[position],
                        check_issue(issues[position], checklist, custom_fields))
       IN IF after.raised
          THEN /\ pc' = "refinement_prep_done"
               /\ result' = CallRaised
               /\ UNCHANGED <<kept, warnings, position>>
          ELSE /\ kept' = after.kept
               /\ warnings' = after.warnings
               /\ position' = position + 1
               /\ IF position = Len(issues)
                  THEN result' = Shown(after.kept) /\ pc' = "refinement_prep_done"
                  ELSE UNCHANGED <<result, pc>>
    /\ UNCHANGED <<checklist, custom_fields, cull_config, arg, thresholds, issues, history>>

\* The run is over
RunReturn ==
    /\ pc \in {"backlog_cull_done", "refinement_prep_done"}
    /\ pc' = "idle"
    /\ arg' = PNone
    /\ result' = PNone
    /\ thresholds' = PNone
    /\ issues' = << >>
    /\ position' = 0
    /\ kept' = << >>
    /\ warnings' = << >>
    /\ UNCHANGED <<checklist, custom_fields, cull_config, history>>

RunNext ==
    \/ CullStart
    \/ CullStep
    \/ PrepStart
    \/ PrepStep
    \/ RunReturn

RunSpec == RunInit /\ [][RunNext]_vars

---------------------------------------------------------------------------
(* One checker answering a sequence of calls *)

SessionInit ==
    /\ checklist \in SessionChecklists
    /\ custom_fields = FieldTable
    /\ pc = "idle"
    /\ arg = PNone
    /\ result = PNone
    /\ cull_config = DefaultCullConfig
    /\ thresholds = PNone
    /\ issues = << >>
    /\ position = 0
    /\ kept = << >>
    /\ warnings = << >>
    /\ history = << >>

SessionCheckIssue ==
    /\ pc = "idle"
    /\ Len(history) < MaxCalls
    /\ \E i \in SessionIssues :
          /\ arg' = i
          /\ result' = check_issue(i, checklist, custom_fields)
          /\ checklist' = rules_after_check(checklist, i)
          /\ custom_fields' = aliases_after_call(custom_fields)
    /\ pc' = "check_issue"
    /\ UNCHANGED <<cull_config, loopVars, history>>

SessionGetContent ==
    /\ pc = "idle"
    /\ Len(history) < MaxCalls
    /\ \E i \in SessionIssues :
          /\ arg' = i
          /\ result' = get_content_for_llm_review(i, custom_fields)
    /\ custom_fields' = aliases_after_call(custom_fields)
    /\ pc' = "get_content_for_llm_review"
    /\ UNCHANGED <<checklist, cull_config, loopVars, history>>

\* The caller has taken the result
SessionReturn ==
    /\ pc # "idle"
    /\ history' = Append(history, [op |-> pc, issue |-> arg, result |-> result,
                                   checklist |-> checklist,
                                   custom_fields |-> custom_fields])
    /\ pc' = "idle"
    /\ arg' = PNone
    /\ result' = PNone
    /\ UNCHANGED <<checklist, custom_fields, cull_config, loopVars>>

SessionNext ==
    \/ SessionCheckIssue
    \/ SessionGetContent
    \/ SessionReturn

SessionSpec == SessionInit /\ [][SessionNext]_vars

---------------------------------------------------------------------------
(* Properties of check_issue *)

\* check_issue has returned a result
Checked == pc = "check_issue" /\ ~result.raised

\* The type check_issue works with: the lower-cased name, "" when there is none
TypeOf(issue_data) ==
    LET f == issue_data.fields.v IN
    IF /\ "issuetype" \in DOMAIN f
       /\ f["issuetype"].t = "dict"
       /\ "name" \in DOMAIN f["issuetype"].v
    THEN Lower(f["issuetype"].v["name"].v)
    ELSE ""

\* The rule is restricted to types the issue's type is not among
Excluded(item, type) ==
    /\ "applies_to" \in DOMAIN item
    /\ item.applies_to # << >>
    /\ \A k \in 1..Len(item.applies_to) : Lower(item.applies_to[k]) # type

Applicable(items, type) == SelectSeq(items, LAMBDA item : ~Excluded(item, type))

RECURSIVE Sum(_)
Sum(numbers) == IF numbers = << >> THEN 0 ELSE Head(numbers) + Sum(Tail(numbers))

\* C1: whatever the rules (weights positive) and the issue, the percentage
\* returned lies between 0 and 100, and it is 0 when max_score is 0.
\* (percentage is held in tenths of a percent.)
C1_PercentageRange ==
    Checked =>
        /\ result.percentage >= 0
        /\ result.percentage <= 1000
        /\ (result.max_score = 0 => result.percentage = 0)

\* C1 witness: rules are configured, none applies to the issue, and the
\* percentage returned is 0
C1_Witness ==
    /\ Checked
    /\ Len(checklist) > 0
    /\ result.max_score = 0
    /\ result.percentage = 0

\* C2: max_score is the sum of the weights of the rules applicable to the
\* issue's type; score is the sum of the weights of those of them whose check
\* passed; every checklist entry scores its weight if passed and 0 otherwise;
\* so score <= max_score.
C2_ScoreSums ==
    Checked =>
        LET type == TypeOf(arg)
            rules == Applicable(checklist, type)
            entries == result.checklist
        IN /\ result.max_score = Sum([k \in 1..Len(rules) |-> rules[k].weight])
           /\ Len(entries) = Len(rules)
           /\ \A k \in 1..Len(rules) :
                 /\ entries[k].weight = rules[k].weight
                 /\ entries[k].passed =
                        _check_field(rules[k], arg.fields.v, type, custom_fields).passed
                 /\ entries[k].score = IF entries[k].passed THEN rules[k].weight ELSE 0
           /\ result.score =
                 Sum([k \in 1..Len(rules) |->
                         IF entries[k].passed THEN rules[k].weight ELSE 0])
           /\ result.score <= result.max_score

\* C2 witness: some applicable rule passed and some failed
C2_Witness ==
    /\ Checked
    /\ \E k \in 1..Len(result.checklist) : result.checklist[k].passed
    /\ \E k \in 1..Len(result.checklist) : ~result.checklist[k].passed
    /\ 0 < result.score
    /\ result.score < result.max_score

\* The rule list without its k-th rule
WithoutRule(items, k) == SubSeq(items, 1, k - 1) \o SubSeq(items, k + 1, Len(items))

\* The rule list with the k-th rule's applies_to taken away
Unrestricted(items, k) ==
    [items EXCEPT ![k] = [key \in DOMAIN items[k] \ {"applies_to"} |-> items[k][key]]]

\* C3: a rule whose non-empty applies_to does not hold the issue's type
\* (lower-cased) is skipped entirely: score, max_score and checklist are what
\* they are without the rule, and max_score is smaller, by the rule's weight,
\* than with the same rule unrestricted.
C3_ExcludedRuleSkipped ==
    Checked =>
        \A k \in 1..Len(checklist) :
            Excluded(checklist[k], TypeOf(arg)) =>
                LET without == check_issue(arg, WithoutRule(checklist, k), custom_fields)
                    open == check_issue(arg, Unrestricted(checklist, k), custom_fields)
                IN /\ ~without.raised
                   /\ result.score = without.score
                   /\ result.max_score = without.max_score
                   /\ result.checklist = without.checklist
                   /\ \A e \in 1..Len(result.checklist) :
                         result.checklist[e].name # checklist[k].name
                   /\ ~open.raised
                   /\ open.max_score = result.max_score + checklist[k].weight
                   /\ result.max_score < open.max_score

\* C3 witness: one rule is excluded by the issue's type while another applies
C3_Witness ==
    /\ Checked
    /\ \E k \in 1..Len(checklist) : Excluded(checklist[k], TypeOf(arg))
    /\ result.max_score > 0

---------------------------------------------------------------------------
(* Properties of the optional_for_non_stories waiver *)

\* The rule asks for the waiver and the issue's type grants it
Waived(item, type) ==
    /\ "optional_for_non_stories" \in DOMAIN item
    /\ item.optional_for_non_stories
    /\ type # ""
    /\ type # "story"

\* The rule asks for the waiver and the issue's type does not grant it
NotWaived(item, type) ==
    /\ "optional_for_non_stories" \in DOMAIN item
    /\ item.optional_for_non_stories
    /\ type \in {"", "story"}

\* What the issue holds in the custom field the k-th rule names
ValueOf(k) ==
    LET id == resolve_custom_field_id(checklist[k], PStr(checklist[k].field), custom_fields)
    IN Get(arg.fields.v, id.v, PNone)

\* The checklist entry check_issue returned for the k-th rule (an applicable one)
EntryOf(k) == result.checklist[Len(Applicable(SubSeq(checklist, 1, k), TypeOf(arg)))]

\* The text of the field the k-th rule names
TextOf(k) == content_text_of(ValueOf(k)).text

C5_NoWaiverForStories ==
    Checked =>
        \A k \in 1..Len(checklist) :
            NotWaived(checklist[k], TypeOf(arg)) =>
                /\ EntryOf(k).passed = check_populated(checklist[k], ValueOf(k)).passed
                /\ EntryOf(k).details = check_populated(checklist[k], ValueOf(k)).details
                /\ ~Truthy(ValueOf(k)) =>
                      /\ ~EntryOf(k).passed
                      /\ EntryOf(k).score = 0
                      /\ EntryOf(k).details =
                            "Field '" \o checklist[k].name \o "' is not populated"

\* C5 witness: a story without its story field fails the rule as not populated
C5_Witness ==
    /\ Checked
    /\ TypeOf(arg) = "story"
    /\ \E k \in 1..Len(checklist) :
          /\ NotWaived(checklist[k], TypeOf(arg))
          /\ ~Truthy(ValueOf(k))
          /\ ~EntryOf(k).passed
          /\ StartsWith(EntryOf(k).details, "Field '")

---------------------------------------------------------------------------
(* Properties of _extract_adf_text *)

RECURSIVE WellFormed(_)
\* A rich document node: a dict whose content, if any, is a list of nodes, and
\* whose text, if it is tagged "text", is a string
WellFormed(node) ==
    /\ node.t = "dict"
    /\ "content" \in DOMAIN node.v =>
          /\ node.v["content"].t = "list"
          /\ \A i \in 1..Len(node.v["content"].v) : WellFormed(node.v["content"].v[i])
    /\ ("type" \in DOMAIN node.v /\ node.v["type"] = PStr("text")) =>
          /\ "text" \in DOMAIN node.v
          /\ node.v["text"].t = "str"

RECURSIVE TextLeaves(_)
RECURSIVE LeavesOfAll(_)
\* The text payloads of the nodes tagged "text", depth first, in document order
TextLeaves(node) ==
    (IF "type" \in DOMAIN node.v /\ node.v["type"] = PStr("text")
     THEN << node.v["text"].v >> ELSE << >>)
    \o (IF "content" \in DOMAIN node.v THEN LeavesOfAll(node.v["content"].v) ELSE << >>)

LeavesOfAll(nodes) ==
    IF nodes = << >> THEN << >>
    ELSE TextLeaves(Head(nodes)) \o LeavesOfAll(Tail(nodes))

RECURSIVE SpaceJoined(_)
\* The strings with one space between neighbours
SpaceJoined(strings) ==
    IF strings = << >> THEN ""
    ELSE IF Len(strings) = 1 THEN strings[1]
    ELSE strings[1] \o " " \o SpaceJoined(Tail(strings))

\* C6: on a rich document _extract_adf_text returns the text payloads of all
\* nodes tagged "text", depth first in document order, joined by single
\* spaces (leaves "As a user", "I want X" give "As a user I want X"); on an
\* input that is not a document it returns the input's string form, a string
\* unchanged.
C6_ExtractionOrder ==
    pc = "_extract_adf_text" =>
        /\ WellFormed(arg) =>
              /\ ~result.raised
              /\ result.text = SpaceJoined(TextLeaves(arg))
        /\ (WellFormed(arg) /\ TextLeaves(arg) = << "As a user", "I want X" >>) =>
              result.text = "As a user I want X"
        /\ arg.t = "str" => (~result.raised /\ result.text = arg.v)
        /\ arg.t = "int" => (~result.raised /\ result.text = IntToStr(arg.v))
        /\ arg.t = "none" => (~result.raised /\ result.text = "None")

\* C6 witness: a document with leaves in nested lists is extracted in order
C6_Witness ==
    /\ pc = "_extract_adf_text"
    /\ WellFormed(arg)
    /\ TextLeaves(arg) = << "one", "two", "three", "four" >>
    /\ result.text = "one two three four"

\* C7: _extract_adf_text never raises, whatever its input
C7_NeverRaises == pc = "_extract_adf_text" => ~result.raised

---------------------------------------------------------------------------
(* Properties of get_content_for_llm_review *)

\* get_content_for_llm_review has returned a list
Reviewed == pc = "get_content_for_llm_review" /\ ~result.raised

\* The extracted text of a field of the issue, "" when the field is unset
ReviewText(key) ==
    LET value == Get(arg.fields.v, key, PNone) IN
    IF Truthy(value) THEN content_text_of(value).text ELSE ""

\* The field names of the returned items, in order
FieldNames == [i \in 1..Len(result.llm_reviews) |-> result.llm_reviews[i].field_name]

\* C8: the list returned holds, in this order, a story_syntax item iff the
\* story-syntax field is present and its text is longer than 10 characters, an
\* acceptance_criteria item iff that field is present and its text is longer
\* than 10 characters, and the six description items (environments, security,
\* documentation, demo, cost, telemetry) iff the description's text is longer
\* than 20 characters; its length is one of 0, 1, 2, 6, 7, 8.
C8_ReviewItemsInOrder ==
    Reviewed =>
        /\ FieldNames =
              (IF Len(ReviewText(custom_fields["story_syntax"])) > 10
               THEN << "story_syntax" >> ELSE << >>)
              \o (IF Len(ReviewText(custom_fields["acceptance_criteria"])) > 10
                  THEN << "acceptance_criteria" >> ELSE << >>)
              \o (IF Len(ReviewText("description")) > 20
                  THEN << "environments", "security", "documentation",
                          "demo", "cost", "telemetry" >>
                  ELSE << >>)
        /\ Len(result.llm_reviews) \in {0, 1, 2, 6, 7, 8}

\* C8 witness: all three sources are long enough and eight items are returned
C8_Witness ==
    /\ Reviewed
    /\ Len(ReviewText(custom_fields["story_syntax"])) > 10
    /\ Len(ReviewText(custom_fields["acceptance_criteria"])) > 10
    /\ Len(ReviewText("description")) > 20
    /\ Len(result.llm_reviews) = 8
    /\ FieldNames[1] = "story_syntax"
    /\ FieldNames[8] = "telemetry"

\* C9: every item returned carries a field name, a criterion, a content
\* excerpt and a prompt, and the items made from the description carry the
\* description's text as their content.
C9_EveryItemHasContent ==
    Reviewed =>
        \A i \in 1..Len(result.llm_reviews) :
            /\ {"field_name", "criterion", "content", "prompt"}
                   \subseteq DOMAIN result.llm_reviews[i]
            /\ result.llm_reviews[i].field_name
                   \notin {"story_syntax", "acceptance_criteria"} =>
                   result.llm_reviews[i].content = ReviewText("description")

---------------------------------------------------------------------------
(* Properties of _analyze_issue *)

\* _analyze_issue has returned an analysis
Analyzed == pc = "_analyze_issue" /\ ~result.raised

\* min(age_days/365, 1)*40 + min(days_since_update/180, 1)*40
\* + (100 - percentage)/100*20, in tenths and times 365*180*5 (an integer);
\* percentage is in tenths of a percent
StalenessScaled(age_days, days_since_update, percentage) ==
    (IF age_days < 365 THEN age_days ELSE 365) * 400 * 180 * 5
    + (IF days_since_update < 180 THEN days_since_update ELSE 180) * 400 * 365 * 5
    + (1000 - percentage) * 365 * 180

\* C10: the staleness score returned is
\* min(age_days/365, 1)*40 + min(days_since_update/180, 1)*40
\* + (100 - percentage)/100*20 to the nearest tenth, and lies between 0 and
\* 100 (age 400, 200 days since update and 20% give 96).  staleness_score is
\* held in tenths.
C10_StalenessFormula ==
    Analyzed =>
        LET exact == StalenessScaled(result.age_days, result.days_since_update,
                                     result.refinement_score)
            shown == result.staleness_score * 365 * 180 * 5
        IN /\ 2 * (shown - exact) <= 365 * 180 * 5
           /\ 2 * (exact - shown) <= 365 * 180 * 5
           /\ result.staleness_score >= 0
           /\ result.staleness_score <= 1000
           /\ (/\ result.age_days = 400
               /\ result.days_since_update = 200
               /\ result.refinement_score = 200) => result.staleness_score = 960

\* C10 witness: 400 days old, updated 200 days ago, 20% ready, staleness 96
C10_Witness ==
    /\ Analyzed
    /\ result.age_days = 400
    /\ result.days_since_update = 200
    /\ result.refinement_score = 200
    /\ result.staleness_score = 960

---------------------------------------------------------------------------
(* Properties of the batch tools *)

\* A run of BacklogCull.run_analysis is in its loop or over
Culling == pc \in {"backlog_cull", "backlog_cull_done"}

\* A run of RefinementPrep.run_analysis is in its loop or over
Preparing == pc \in {"refinement_prep", "refinement_prep_done"}

\* The issues of the batch the loop has been through
Processed == 1..(position - 1)

\* Whole days from the issue's last update to now
IdleDays(issue) == (Now - issue.fields.v["updated"].v) \div 24

\* Processing the i-th issue of the batch raises
Fails(i) ==
    IF Culling
    THEN _analyze_issue(issues[i], thresholds.activity_threshold,
                        thresholds.refinement_threshold,
                        checklist, custom_fields, Now).raised
    ELSE check_issue(issues[i], checklist, custom_fields).raised

\* The i-th issue meets the two conditions of candidacy
MeetsCullCriteria(i) ==
    /\ IdleDays(issues[i]) >= thresholds.activity_threshold
    /\ check_issue(issues[i], checklist, custom_fields).percentage
           < 10 * thresholds.refinement_threshold

\* The keys of the entries kept, in order
KeptKeys ==
    [k \in 1..Len(kept) |->
        IF Culling THEN kept[k].issue_key.v ELSE kept[k].issue.key.v]

\* The keys of the processed issues that satisfy P, in batch order
KeysWhere(P(_)) ==
    LET F[n \in 0..Len(issues)] ==
            IF n = 0 THEN << >>
            ELSE IF n \in Processed /\ P(n) THEN Append(F[n - 1], issues[n].key.v)
            ELSE F[n - 1]
    IN F[Len(issues)]

\* C11: an analysed issue is a cull candidate iff its days since update are
\* at least the inactivity threshold and its DoR percentage is below the
\* refinement threshold, whatever its age and staleness score; the list of
\* the run holds the candidates and nothing else.
C11_CandidatesOnly ==
    (Culling /\ result # CallRaised) =>
        /\ \A k \in 1..Len(kept) :
              /\ kept[k].is_candidate
              /\ kept[k].days_since_update >= thresholds.activity_threshold
              /\ kept[k].refinement_score < 10 * thresholds.refinement_threshold
        /\ \A i \in Processed :
              ~Fails(i) =>
                  ((\E k \in 1..Len(kept) : kept[k].issue_key = issues[i].key)
                      <=> MeetsCullCriteria(i))

\* C11 witness: a run is over in which an old and stale issue was left out
\* for its recent update and a younger one was kept
C11_Witness ==
    /\ pc = "backlog_cull_done"
    /\ Len(kept) = 1
    /\ \E i, j \in Processed :
          /\ ~Fails(i) /\ ~Fails(j)
          /\ issues[i].fields.v["created"].v < issues[j].fields.v["created"].v
          /\ ~MeetsCullCriteria(i)
          /\ MeetsCullCriteria(j)
          /\ kept[1].issue_key = issues[j].key

---------------------------------------------------------------------------
(* Properties of a checker answering many calls *)

---------------------------------------------------------------------------
(* Properties of the configuration *)

\* The rule list with a name given to the rules that have none
Named(items) ==
    [k \in 1..Len(items) |->
        IF "name" \in DOMAIN items[k] THEN items[k]
        ELSE items[k] @@ [name |-> "Rule"]]

\* C14: a rule that lacks its weight or its name is rejected when the checker
\* is constructed, so on a constructed checker no check_issue call fails for
\* the lack of one: every rule has its weight, and a call that raises raises
\* as well when every rule is given a name.
C14_RejectedAtLoad ==
    /\ \A k \in 1..Len(checklist) : "weight" \in DOMAIN checklist[k]
    /\ (pc = "check_issue" /\ result.raised) =>
          check_issue(arg, Named(checklist), custom_fields).raised

---------------------------------------------------------------------------
(* Properties of the two text heuristics *)

\* The text in lower case, its runs of whitespace made one space, none at
\* the ends
Normalised(text) == Normalize(text)

\* The text without the whitespace at its ends
Trimmed(text) == Strip(text)

\* One of the fixed boilerplate phrases occurs in the text
HoldsBoilerplate(text) ==
    \E phrase \in { "as a i would like so that",
                    "steps to reproduce 1. login 2. navigate to page 3. click stuff",
                    "please describe what the expected behavior is",
                    "what actually happens" } :
        Contains(phrase, text)

\* C15: _has_meaningful_content(text) is false when text is empty or its
\* trimmed length is under 20, false when the lower-cased,
\* whitespace-normalised text holds one of the fixed boilerplate phrases, and
\* true otherwise; a 15-character string gives false, a 25-character string
\* that is no template gives true.
C15_MeaningfulContent ==
    pc = "_has_meaningful_content" =>
        /\ ~result.raised
        /\ (arg.v = "" \/ Len(Trimmed(arg.v)) < 20) => ~result.value
        /\ HoldsBoilerplate(Normalised(arg.v)) => ~result.value
        /\ (/\ arg.v # ""
            /\ Len(Trimmed(arg.v)) >= 20
            /\ ~HoldsBoilerplate(Normalised(arg.v))) => result.value
        /\ arg.v = "Fifteen chars!!" => ~result.value
        /\ arg.v = "A plain sentence, 25 long" => result.value

\* C15 witness: a text long enough is turned down for a boilerplate phrase
\* written in capitals
C15_Witness ==
    /\ pc = "_has_meaningful_content"
    /\ Len(Trimmed(arg.v)) >= 20
    /\ ~HoldsBoilerplate(arg.v)
    /\ HoldsBoilerplate(Normalised(arg.v))
    /\ ~result.value

\* One of the fixed unfilled story-syntax patterns occurs in the text
HoldsStoryPattern(text) ==
    \E pattern \in { "as a i want so that",
                     "as a i would like so that",
                     "as a [user type] i want [feature] so that [benefit]",
                     "as a [user type] i would like [feature] so that [benefit]" } :
        Contains(pattern, text)

\* C16: _is_story_syntax_template(text) is true iff text is empty, or the
\* normalised text holds one of the fixed unfilled patterns, or the
\* normalised text is under 30 characters and holds "as a" and either
\* "i want" or "i would like"; "As a I want So that" gives true, a long
\* filled-in story gives false.
C16_StoryTemplate ==
    pc = "_is_story_syntax_template" =>
        /\ ~result.raised
        /\ result.value <=>
              \/ arg.v = ""
              \/ HoldsStoryPattern(Normalised(arg.v))
              \/ /\ Len(Normalised(arg.v)) < 30
                 /\ Contains("as a", Normalised(arg.v))
                 /\ \/ Contains("i want", Normalised(arg.v))
                    \/ Contains("i would like", Normalised(arg.v))
        /\ arg.v = "As a I want So that" => result.value
        /\ arg.v = LongStory => ~result.value

\* C16 witness: a short text that is 30 characters or more as written, and
\* under 30 once normalised, is taken for the template
C16_Witness ==
    /\ pc = "_is_story_syntax_template"
    /\ Len(arg.v) >= 30
    /\ Len(Normalised(arg.v)) < 30
    /\ ~HoldsStoryPattern(Normalised(arg.v))
    /\ result.value

---------------------------------------------------------------------------
(* Properties of the recommendations *)

\* The indices of the checks that failed and are not optional, in order
FailedRequired ==
    LET F[n \in 0..Len(result.checklist)] ==
            IF n = 0 THEN << >>
            ELSE IF ~result.checklist[n].passed /\ ~result.checklist[n].optional
                 THEN Append(F[n - 1], n)
                 ELSE F[n - 1]
    IN F[Len(result.checklist)]

\* A failed required check has the phrase in its lower-cased name
FailedNamed(phrase) ==
    \E k \in 1..Len(FailedRequired) :
        Contains(phrase, Lower(result.checklist[FailedRequired[k]].name))

\* C17: with no failed non-optional check the recommendations are one
\* success message; otherwise a header with the number n of failed
\* non-optional checks, n bullets (one per such check, in checklist order,
\* with its name and details), the four-line story-syntax skeleton iff a
\* failed required check's name holds "story syntax", and the four-line
\* Given/When/Then skeleton iff one holds "acceptance criteria", whatever
\* the case of the name; failed optional checks are not listed.
C17_Recommendations ==
    Checked =>
        LET n == Len(FailedRequired)
            recs == result.recommendations
            story == IF FailedNamed("story syntax") THEN 4 ELSE 0
            criteria == IF FailedNamed("acceptance criteria") THEN 4 ELSE 0
        IN IF n = 0
           THEN recs = << "Issue meets all required Definition of Ready criteria!" >>
           ELSE /\ Len(recs) = 1 + n + story + criteria
                /\ recs[1] = "Missing " \o IntToStr(n) \o " required item(s):"
                /\ \A k \in 1..n :
                      recs[1 + k] = "  - " \o result.checklist[FailedRequired[k]].name
                                    \o ": " \o result.checklist[FailedRequired[k]].details
                /\ story = 4 =>
                      SubSeq(recs, n + 2, n + 5) =
                          << "\nTip: Use the story syntax template:", "   As a [USER TYPE]",
                             "   I want [FEATURE]", "   So that [BENEFIT]" >>
                /\ criteria = 4 =>
                      SubSeq(recs, n + story + 2, n + story + 5) =
                          << "\nTip: Use BDD/Gherkin format:", "   Given [precondition]",
                             "   When [action]", "   Then [expected outcome]" >>

\* C17 witness: the only check that failed is optional, and the success
\* message is the whole list
C17_Witness ==
    /\ Checked
    /\ \E k \in 1..Len(result.checklist) :
          ~result.checklist[k].passed /\ result.checklist[k].optional
    /\ Len(FailedRequired) = 0
    /\ Len(result.recommendations) = 1

---------------------------------------------------------------------------
(* Properties of _check_field *)

\* The field a rule names, "" when it names none
FieldOf(item) == IF "field" \in DOMAIN item THEN item.field ELSE ""

\* The entry of the k-th rule is what the custom-field checks give for the
\* value the issue holds under the identifier id
DecidedByField(k, id) ==
    LET value == Get(arg.fields.v, id, PNone)
        w == check_waiver(checklist[k], value, TypeOf(arg))
        expected == IF w.decided THEN w.out ELSE check_populated(checklist[k], value)
    IN /\ EntryOf(k).passed = expected.passed
       /\ EntryOf(k).details = expected.details

\* C18: _check_field resolves the field of a rule in this order: summary and
\* parent are handled as literal fields; otherwise the rule's own field
\* identifier is used; otherwise the alias table maps the field name to an
\* identifier; otherwise a name that starts with "customfield_" is the
\* identifier; and a rule to which none applies, and that is no
\* description-keyword rule, fails with "Could not evaluate field".
C18_FieldResolution ==
    Checked =>
        \A k \in 1..Len(checklist) :
            ~Excluded(checklist[k], TypeOf(arg)) =>
                IF FieldOf(checklist[k]) = "summary"
                THEN /\ EntryOf(k).passed = check_summary(arg.fields.v).passed
                     /\ EntryOf(k).details = check_summary(arg.fields.v).details
                ELSE IF FieldOf(checklist[k]) = "parent"
                THEN /\ EntryOf(k).passed = check_parent(checklist[k], arg.fields.v).passed
                     /\ EntryOf(k).details = check_parent(checklist[k], arg.fields.v).details
                ELSE IF "field_name" \in DOMAIN checklist[k]
                THEN DecidedByField(k, checklist[k].field_name)
                ELSE IF FieldOf(checklist[k]) \in DOMAIN custom_fields
                THEN DecidedByField(k, custom_fields[FieldOf(checklist[k])])
                ELSE IF StartsWith(FieldOf(checklist[k]), "customfield_")
                THEN DecidedByField(k, FieldOf(checklist[k]))
                ELSE IF "check_in_description" \notin DOMAIN checklist[k]
                THEN /\ ~EntryOf(k).passed
                     /\ EntryOf(k).details = "Could not evaluate field"
                ELSE TRUE

\* C18 witness: a rule named after the story alias and carrying the account
\* code's identifier passes on the account code of an issue without a story,
\* a rule with a raw identifier passes on that field, and a rule with an
\* unknown field name could not be evaluated
C18_Witness ==
    /\ Checked
    /\ Len(checklist) = 3
    /\ checklist[1].field = "story_syntax"
    /\ "field_name" \in DOMAIN checklist[1]
    /\ ~Truthy(Get(arg.fields.v, custom_fields["story_syntax"], PNone))
    /\ result.checklist[1].passed
    /\ result.checklist[1].details = "Set to: CDP Feature Development"
    /\ StartsWith(checklist[2].field, "customfield_")
    /\ result.checklist[2].passed
    /\ ~result.checklist[3].passed
    /\ result.checklist[3].details = "Could not evaluate field"

\* C19: a rule for summary passes iff the issue has a summary that, without
\* the whitespace at its ends, is longer than 3 characters; with any other
\* summary (absent, null, empty, blank, 3 characters or fewer) it fails, and
\* does not raise.
C19_SummaryRule ==
    pc = "check_issue" =>
        \A k \in 1..Len(checklist) :
            (FieldOf(checklist[k]) = "summary" /\ ~Excluded(checklist[k], TypeOf(arg))) =>
                LET title == Get(arg.fields.v, "summary", PNone)
                    long == title.t = "str" /\ Len(Trimmed(title.v)) > 3
                IN /\ ~_check_field(checklist[k], arg.fields.v, TypeOf(arg),
                                    custom_fields).raised
                   /\ Checked =>
                         /\ EntryOf(k).passed <=> long
                         /\ ~long =>
                               /\ EntryOf(k).score = 0
                               /\ EntryOf(k).details = "Title is missing or too short"

\* C19 witness: a summary of three characters within whitespace fails
C19_Witness ==
    /\ Checked
    /\ "summary" \in DOMAIN arg.fields.v
    /\ arg.fields.v["summary"].t = "str"
    /\ Len(arg.fields.v["summary"].v) > 3
    /\ Len(Trimmed(arg.fields.v["summary"].v)) = 3
    /\ \E k \in 1..Len(checklist) :
          /\ FieldOf(checklist[k]) = "summary"
          /\ ~EntryOf(k).passed

\* C20: a rule for parent passes when the issue has a parent link; without a
\* link it passes with an "Optional" note when the rule is optional, its
\* weight counted in score and max_score, and fails when the rule is not
\* optional.
C20_ParentRule ==
    Checked =>
        \A k \in 1..Len(checklist) :
            (FieldOf(checklist[k]) = "parent" /\ ~Excluded(checklist[k], TypeOf(arg))) =>
                LET linked == Truthy(Get(arg.fields.v, "parent", PNone))
                    optional == "optional" \in DOMAIN checklist[k] /\ checklist[k].optional
                IN /\ linked =>
                         /\ EntryOf(k).passed
                         /\ StartsWith(EntryOf(k).details, "Linked to ")
                   /\ (~linked /\ optional) =>
                         /\ EntryOf(k).passed
                         /\ StartsWith(EntryOf(k).details, "Optional")
                         /\ EntryOf(k).score = checklist[k].weight
                         /\ result.score >= checklist[k].weight
                         /\ result.max_score >= checklist[k].weight
                   /\ (~linked /\ ~optional) =>
                         /\ ~EntryOf(k).passed
                         /\ EntryOf(k).score = 0
                         /\ EntryOf(k).details = "No parent epic linked"
                   /\ EntryOf(k).passed <=> (linked \/ optional)

\* C20 witness: an optional parent rule passes on an issue without a parent
\* and is the whole score
C20_Witness ==
    /\ Checked
    /\ ~Truthy(Get(arg.fields.v, "parent", PNone))
    /\ \E k \in 1..Len(checklist) :
          /\ FieldOf(checklist[k]) = "parent"
          /\ "optional" \in DOMAIN checklist[k]
          /\ EntryOf(k).passed
          /\ EntryOf(k).details = "Optional - No parent epic"
          /\ result.score = checklist[k].weight
          /\ result.max_score > result.score

---------------------------------------------------------------------------
(* Properties of the custom-field checks *)

\* The k-th rule is decided by a custom field: it names neither summary nor
\* parent and an identifier is resolved for it
ByCustomField(k) ==
    /\ "field" \in DOMAIN checklist[k]
    /\ checklist[k].field \notin {"summary", "parent"}
    /\ Truthy(resolve_custom_field_id(checklist[k], PStr(checklist[k].field), custom_fields))

\* The k-th rule is such a rule, applies to the issue and is not waived for it
PlainCustomField(k) ==
    /\ ByCustomField(k)
    /\ ~Excluded(checklist[k], TypeOf(arg))
    /\ ~Waived(checklist[k], TypeOf(arg))

\* C21: a custom-field rule without a waiver is decided by the shape of the
\* value: a rich document (it has content) passes iff its extracted text is
\* meaningful content; a reference object with a value key passes; a string
\* or a number, the number 0 included, passes iff its string form is not
\* blank; a non-empty list passes; a missing or empty value fails with
\* "Field '<name>' is not populated".
C21_ValueShapes ==
    Checked =>
        \A k \in 1..Len(checklist) :
            PlainCustomField(k) =>
                LET value == ValueOf(k)
                    entry == EntryOf(k)
                    not_populated == "Field '" \o checklist[k].name \o "' is not populated"
                IN /\ (value.t = "dict" /\ "content" \in DOMAIN value.v) =>
                          (entry.passed <=> _has_meaningful_content(TextOf(k)))
                   /\ (/\ value.t = "dict"
                       /\ "content" \notin DOMAIN value.v
                       /\ "value" \in DOMAIN value.v) => entry.passed
                   /\ value.t \in {"str", "int"} =>
                          (entry.passed <=> Trimmed(PyStr(value)) # "")
                   /\ (value.t = "list" /\ Len(value.v) > 0) => entry.passed
                   /\ (\/ value = PNone
                       \/ value \in {PStr(""), PList(<< >>), PDict(<< >>)}) =>
                          /\ ~entry.passed
                          /\ entry.details = not_populated

---------------------------------------------------------------------------
(* Properties of the description-keyword check *)

\* The k-th rule is decided by keyword search: it asks for it, names neither
\* summary nor parent, and no custom-field identifier is resolved for it
ByDescription(k) ==
    /\ "check_in_description" \in DOMAIN checklist[k]
    /\ checklist[k].check_in_description
    /\ "field" \in DOMAIN checklist[k]
    /\ ~ByCustomField(k)
    /\ checklist[k].field \notin {"summary", "parent"}

\* The text of the issue's description
DescriptionText ==
    LET d == Get(arg.fields.v, "description", PStr("")) IN
    IF d.t = "str" THEN d.v ELSE _extract_adf_text(d).text

\* The keyword set of a field name: its entry in the fixed table, or the
\* name itself
KeywordSet(field) ==
    IF field \in DOMAIN keyword_map THEN keyword_map[field] ELSE << field >>

\* The keywords of the set that occur in the lower-cased text, in table order
Matched(field, text) ==
    SelectSeq(KeywordSet(field), LAMBDA kw : Contains(kw, Lower(text)))

\* The first n elements of a sequence, all of them when it has fewer
FirstOf(seq, n) == SubSeq(seq, 1, IF Len(seq) < n THEN Len(seq) ELSE n)

\* C22: the description-keyword check passes iff at least one keyword of the
\* rule's keyword set (the table entry of its field name, or the field name
\* itself when the table has no entry) occurs in the lower-cased description
\* text and that text is longer than 50 characters; pass details list the
\* matched keywords in table order, failure details list at most the first 3
\* expected keywords.
C22_DescriptionKeywords ==
    Checked =>
        \A k \in 1..Len(checklist) :
            (ByDescription(k) /\ ~Excluded(checklist[k], TypeOf(arg))) =>
                LET found == Matched(checklist[k].field, DescriptionText) IN
                /\ EntryOf(k).passed <=> (Len(found) > 0 /\ Len(DescriptionText) > 50)
                /\ EntryOf(k).passed =>
                      EntryOf(k).details = "Mentioned in description: " \o Join(", ", found)
                /\ ~EntryOf(k).passed =>
                      EntryOf(k).details =
                          "Not mentioned in description (expected: "
                          \o Join(", ", FirstOf(KeywordSet(checklist[k].field), 3)) \o ")"

\* C22 witness: a description of 51 characters passes the security rule on
\* one keyword, one of 50 characters with the same keyword fails it, and a
\* rule whose field name is not in the table fails with its own name expected
C22_Witness ==
    /\ Checked
    /\ Len(checklist) = 2
    /\ ByDescription(1) /\ checklist[1].field \notin DOMAIN keyword_map
    /\ ByDescription(2) /\ checklist[2].field = "security"
    /\ Len(DescriptionText) = 51
    /\ ~result.checklist[1].passed
    /\ result.checklist[1].details = "Not mentioned in description (expected: rollback)"
    /\ result.checklist[2].passed
    /\ result.checklist[2].details = "Mentioned in description: security"

\* The k-th rule asks for the description search and names a field
FlaggedForDescription(k) ==
    /\ "check_in_description" \in DOMAIN checklist[k]
    /\ checklist[k].check_in_description
    /\ "field" \in DOMAIN checklist[k]

\* C23: every rule with check_in_description set is evaluated by keyword
\* search over the description and not by checking a dedicated field,
\* whatever its field name: an alias of the custom-field table, a raw
\* custom-field identifier, or a name that comes with an explicit field
\* identifier.
C23_FlagMeansKeywordSearch ==
    Checked =>
        \A k \in 1..Len(checklist) :
            (FlaggedForDescription(k) /\ ~Excluded(checklist[k], TypeOf(arg))) =>
                LET searched == check_description(arg.fields.v, PStr(checklist[k].field)) IN
                /\ EntryOf(k).passed = searched.passed
                /\ EntryOf(k).details = searched.details

---------------------------------------------------------------------------
(* Properties of field resolution *)

\* The field of the rule cannot be resolved: it names neither summary nor
\* parent, and no custom-field identifier is found for it
Unresolved(item) ==
    /\ FieldOf(item) \notin {"summary", "parent"}
    /\ ~Truthy(resolve_custom_field_id(item,
                   IF "field" \in DOMAIN item THEN PStr(item.field) ELSE PNone,
                   custom_fields))

\* The rule asks for the description search
Flagged(item) == "check_in_description" \in DOMAIN item /\ item.check_in_description

\* Nothing but an unresolved rule can make this call raise: the issue's type
\* and status can be read and every rule whose field is resolved is checked
OnlyUnresolvedCanRaise ==
    /\ ~name_of(arg.fields.v, "issuetype", PStr("")).raised
    /\ ~name_of(arg.fields.v, "status", PNone).raised
    /\ \A j \in 1..Len(checklist) :
          ~Unresolved(checklist[j]) =>
              /\ "name" \in DOMAIN checklist[j]
              /\ ~_check_field(checklist[j], arg.fields.v, TypeOf(arg), custom_fields).raised

\* C24: a rule whose field cannot be resolved (unknown logical name, or no
\* field at all, with or without check_in_description) does not make
\* check_issue raise: the rule is reported as a failed check with a detail
\* (unless the description search it asks for finds its keyword), and every
\* applicable rule of the checklist, the later ones included, is reported.
C24_ResolutionFailureNonFatal ==
    (pc = "check_issue" /\ OnlyUnresolvedCanRaise) =>
        \A k \in 1..Len(checklist) :
            (Unresolved(checklist[k]) /\ ~Excluded(checklist[k], TypeOf(arg))) =>
                /\ ~result.raised
                /\ Len(result.checklist) = Len(Applicable(checklist, TypeOf(arg)))
                /\ EntryOf(k).name = checklist[k].name
                /\ EntryOf(k).details # ""
                /\ ~Flagged(checklist[k]) => ~EntryOf(k).passed

---------------------------------------------------------------------------
(* Properties of the returned checklist *)

\* C25: the checklist of a check_issue result has exactly one entry per rule
\* applicable to the issue's type, in the configured rule order, and each
\* entry carries the name, the weight and the optional flag of its rule.
C25_OneEntryPerApplicableRule ==
    Checked =>
        LET rules == Applicable(checklist, TypeOf(arg)) IN
        /\ Len(result.checklist) = Len(rules)
        /\ \A k \in 1..Len(rules) :
              /\ result.checklist[k].name = rules[k].name
              /\ result.checklist[k].weight = rules[k].weight
              /\ result.checklist[k].optional =
                    ("optional" \in DOMAIN rules[k] /\ rules[k].optional)

\* C25 witness: of four rules the second is excluded by the issue's type and
\* the other three are reported in their order, the third under another weight
\* than the first
C25_Witness ==
    /\ Checked
    /\ Len(checklist) = 4
    /\ Excluded(checklist[2], TypeOf(arg))
    /\ Len(result.checklist) = 3
    /\ result.checklist[1].name = checklist[1].name
    /\ result.checklist[2].name = checklist[3].name
    /\ result.checklist[3].name = checklist[4].name
    /\ result.checklist[1].name # result.checklist[3].name
    /\ result.checklist[1].weight # result.checklist[3].weight

---------------------------------------------------------------------------
(* Properties of the display of BacklogCull.run_analysis *)

\* A run of BacklogCull.run_analysis has displayed its candidates
Displayed == pc = "backlog_cull_done" /\ result # CallRaised

\* The place of an issue in the batch fetched
FetchPlace(key) == CHOOSE i \in 1..Len(issues) : issues[i].key = key

\* C26: run_analysis displays the candidates in descending order of
\* staleness score, candidates of equal score in the order they were fetched
\* in; every candidate is displayed once.
C26_SortedByStaleness ==
    Displayed =>
        LET shown == result.shown IN
        /\ \A i, j \in 1..Len(shown) :
              i < j =>
                  /\ shown[i].staleness_score >= shown[j].staleness_score
                  /\ shown[i].staleness_score = shown[j].staleness_score =>
                        FetchPlace(shown[i].issue_key) < FetchPlace(shown[j].issue_key)
        /\ { shown[k].issue_key.v : k \in 1..Len(shown) } =
              { issues[i].key.v : i \in { j \in 1..Len(issues) :
                                           ~Fails(j) /\ MeetsCullCriteria(j) } }
        /\ Len(shown) = Cardinality({ j \in 1..Len(issues) :
                                       ~Fails(j) /\ MeetsCullCriteria(j) })

\* C26 witness: three candidates are displayed; the one fetched first scores
\* least and is shown last, the two others score the same and are shown in
\* the order they were fetched in
C26_Witness ==
    /\ Displayed
    /\ Len(result.shown) = 3
    /\ result.shown[1].staleness_score = result.shown[2].staleness_score
    /\ result.shown[2].staleness_score > result.shown[3].staleness_score
    /\ FetchPlace(result.shown[3].issue_key) = 1
    /\ FetchPlace(result.shown[1].issue_key) = 2
    /\ FetchPlace(result.shown[2].issue_key) = 3

---------------------------------------------------------------------------
(* Properties of check_issue on an issue without a type *)

\* The issue's type is unset: issuetype is absent, null, or has no name
Untyped(issue_data) ==
    LET f == issue_data.fields.v IN
    \/ "issuetype" \notin DOMAIN f
    \/ f["issuetype"] = PNone
    \/ f["issuetype"].t = "dict" /\ "name" \notin DOMAIN f["issuetype"].v

\* No rule raises when it is checked against the issue as one of no type,
\* and the issue's status can be read
CheckableUntyped ==
    /\ ~name_of(arg.fields.v, "status", PNone).raised
    /\ \A j \in 1..Len(checklist) :
          /\ "name" \in DOMAIN checklist[j]
          /\ ~_check_field(checklist[j], arg.fields.v, "", custom_fields).raised

\* C27: check_issue on an issue whose type is unset (issuetype absent, null,
\* or without a name) takes the type for the empty string and does not raise:
\* the rules reported are those without a non-empty applies_to, and a rule
\* with optional_for_non_stories is decided by the normal custom-field checks.
C27_UnsetTypeIsEmpty ==
    (pc = "check_issue" /\ Untyped(arg) /\ CheckableUntyped) =>
        /\ ~result.raised
        /\ LET rules == SelectSeq(checklist, LAMBDA item :
                            Get(item, "applies_to", << >>) = << >>)
           IN /\ Len(result.checklist) = Len(rules)
              /\ \A k \in 1..Len(rules) :
                    LET normal == _check_field(
                            [key \in DOMAIN rules[k] \ {"optional_for_non_stories"} |->
                                rules[k][key]],
                            arg.fields.v, "", custom_fields)
                    IN /\ result.checklist[k].name = rules[k].name
                       /\ result.checklist[k].passed = normal.passed
                       /\ result.checklist[k].details = normal.details

---------------------------------------------------------------------------
(* Properties of the waiver over all values *)

\* C28: a rule with optional_for_non_stories never fails for an issue of a
\* known type other than story: whatever the field holds (nothing, template
\* text, short text that is no template, a rich document, a reference
\* object, a scalar or a list), the check passes.
C28_WaivedRuleNeverFails ==
    Checked =>
        \A k \in 1..Len(checklist) :
            (/\ ByCustomField(k)
             /\ Waived(checklist[k], TypeOf(arg))
             /\ ~Excluded(checklist[k], TypeOf(arg))) => EntryOf(k).passed

---------------------------------------------------------------------------
(* Properties of the two heuristics together *)

\* The k-th rule reads a rich document that holds only the unfilled
\* story-syntax template
HoldsOnlyTemplate(k) ==
    /\ ByCustomField(k)
    /\ ValueOf(k).t = "dict"
    /\ "content" \in DOMAIN ValueOf(k).v
    /\ ~content_text_of(ValueOf(k)).raised
    /\ TextOf(k) # ""
    /\ _is_story_syntax_template(TextOf(k))

\* C29: the two heuristics agree on templates: a non-empty text that
\* _is_story_syntax_template takes for the unfilled template is not
\* meaningful content for _has_meaningful_content; so for a story, a
\* rich-document field that holds only the unfilled template, the bracket
\* variants included, does not pass its rule.
C29_TemplateIsNotMeaningful ==
    /\ (pc = "_is_story_syntax_template" /\ arg.v # "" /\ result.value) =>
           ~_has_meaningful_content(arg.v)
    /\ (Checked /\ TypeOf(arg) = "story") =>
           \A k \in 1..Len(checklist) :
               (HoldsOnlyTemplate(k) /\ ~Excluded(checklist[k], TypeOf(arg))) =>
                   ~EntryOf(k).passed

---------------------------------------------------------------------------
(* Properties of the thresholds of BacklogCull.run_analysis *)

\* The threshold the caller means: the override when one is passed, the
\* configured value when none is
Meant(override, configured) == IF override # PNone THEN override.v ELSE configured

\* C30: whenever an override threshold (age, activity or refinement) is
\* passed to run_analysis, the value 0 included, the override and not the
\* configured value is used to fetch the old issues and to decide candidacy;
\* the configured value is used only when no override is passed.
C30_OverridesUsed ==
    Culling =>
        LET age == Meant(arg.overrides.age_threshold, cull_config.age_threshold_days)
            activity == Meant(arg.overrides.activity_threshold, cull_config.no_activity_days)
            refinement == Meant(arg.overrides.refinement_threshold,
                                cull_config.min_refinement_score)
        IN /\ thresholds.age_threshold = age
           /\ thresholds.activity_threshold = activity
           /\ thresholds.refinement_threshold = refinement
           /\ issues \in { << >>, _fetch_old_issues(arg.backlog, age, Now, TRUE) }
           /\ \A k \in 1..Len(kept) :
                 /\ kept[k].days_since_update >= activity
                 /\ kept[k].refinement_score < 10 * refinement

===========================================================================
